---------------------------- MODULE Spec2Model ----------------------------
(***************************************************************************)
(* A model of skyportd: the deployment routes (routes/Deployment.js), the  *)
(* delete routes, the power route (routes/Power.js) and the WebSocket      *)
(* server of index.js (log relay, stats polling, power events).            *)
(*                                                                         *)
(* The daemon is one Node.js process: a handler runs without interruption  *)
(* between two awaits, and other handlers run at every await.  Each action *)
(* below is one such uninterrupted stretch of a handler.                   *)
(*                                                                         *)
(* The module holds several specifications over one set of variables; a    *)
(* specification moves only the variables of its part of the program and   *)
(* leaves the others at their idle values.                                 *)
(***************************************************************************)
EXTENDS Integers, Sequences, FiniteSets, TLC

VARIABLES
    \* ---- install-script download (Deployment.js downloadFile) ----
    dlIdx,        \* index of the script downloadInstallScripts is at
    dlPc,         \* position inside downloadFile / downloadInstallScripts
    attempt,      \* downloadFile's local `attempt`
    dlReq,        \* per script: https.get requests issued
    dlTransient,  \* per script: responses with status 522 received
    dlFailed,     \* per script: attempts ended by a non-200 status or an error
    dlRes,        \* per script: how downloadFile ended
    dlFile,       \* per script: what is at filePath on disk
    dlCaller,     \* how downloadInstallScripts ended for its caller
    \* ---- stats polling session (index.js setupStatsStreaming) ----
    diskLimit,       \* the session's `diskLimit`, read once at setup
    hasAutoStopped,  \* the session's latch
    volumeBytes,     \* bytes under the workload's volume directory
    running,         \* the runtime's State.Running of the container
    wsOpen,          \* the connection has not closed
    statsInterval,   \* "unset", "set" (setInterval done) or "cleared"
    ticks,           \* per fetchStats invocation: its position and results
    stopCalls,       \* container.stop() calls issued by the session
    firstExceeded,   \* the first invocation that computed storageExceeded
    \* ---- log relay (index.js streamDockerLogs, performPowerAction) ----
    containerLogs,   \* containerLogs[containerId]: the workload's LogBuffer
    chunks,          \* what the container has written so far, chunk by chunk
    conns,           \* per connection: its state and whether bufferedAmount > 0
    sent,            \* per connection: the messages ws.send was given, in order
    logStreams,      \* the follow streams container.logs() was asked for
    entry,           \* per connection: where in `sent` its first replay began
                     \* and the LogBuffer at that moment
    powerEvents,     \* power:* events handled so far
    \* ---- power requests (routes/Power.js, index.js performPowerAction) ----
    pwRecord,        \* the workload's entry of states.json
    pwVolume,        \* its volume directory: Null (missing) or its bytes
    pwReq,           \* the power request being handled
    pwSeen,          \* the quota and volume bytes at the admission decision
    \* ---- deployment routes (routes/Deployment.js, DeleteInstance.js) ----
    states,          \* storage/states.json: workload id -> entry
    volumes,         \* the directories under volumes/
    containers,      \* the runtime's containers: runtime id -> name, running
    reqs,            \* the requests: handler position and locals
    \* ---- one WebSocket connection (index.js wss.on("connection")) ----
    wcUrl,           \* req.url
    wcAuth,          \* isAuthenticated
    wcSecret,        \* an auth event with the configured key was received
    wcState,         \* the socket: "open", "closing" (ws.close called), "closed"
    wcClose,         \* the code of the first ws.close call, 0 if none
    wcSession,       \* the session bound: "none", "exec", "stats"
    wcPending,       \* the awaits in flight for this connection
    wcCalls,         \* the runtime calls made for this connection
    wcLast,          \* the latest step: the frame handled, the messages sent
    \* ---- container names and mounts (Deployment.js createContainerOptions) ----
    nmContainers,    \* the runtime's containers: runtime id -> name, mounted volume
    nmCreated,       \* docker.createContainer calls that returned a container
    nmVolumes,       \* the directories under volumes/
    nmStates,        \* the keys of storage/states.json
    nmReq,           \* the request being handled
    \* ---- runtime client, API version (index.js Docker._getApiVersion) ----
    apiVersion,      \* this.apiVersion: Null until detected
    vnCalls,         \* the _request calls: position, version prefix used
    \* ---- streamed image pull (index.js Docker.pull) ----
    plBody,          \* the body of the 2xx response, character by character
    plCuts,          \* the positions after which a chunk ends
    plPos,           \* characters delivered in data events so far
    lastStatus,      \* pull's `lastStatus`: Null or the last frame parsed
    plResult,        \* the promise: "pending", "resolved" or "rejected"
    \* ---- file upload (routes/UploadFiles.js) ----
    upRecord,        \* the workload's entry of states.json
    upVolume,        \* its volume directory: Null (missing) or its bytes
    upFiles,         \* req.files: the sizes of the files multer stored in tmp/
    upTmp,           \* the indexes of req.files still present in tmp/
    upMoved,         \* the indexes of req.files renamed into the volume
    upReq,           \* the handler: position, response code
    \* ---- volume size (index.js getVolumeSize, calculateDirectorySize) ----
    szTree,          \* the volume: a chain of this many nested directories
                     \* under the root, one 1-byte file in each directory
    szLevel,         \* the nesting level of the directory the call is at
    currentDepth,    \* the call's `currentDepth` argument
    totalSize,       \* bytes summed so far over the calls
    szWarned,        \* "Maximum depth reached" was logged
    szPc,            \* "walking" or "returned"
    \* states.json under overlapping updates of several ids
    sjFile,         \* the file's content: id -> record
    sjOps,          \* the updateState / delete cycles in flight
    \* DELETE /instances/:id/delete and the runtime's error messages
    diContainer,    \* the workloads whose container exists
    diVolumes,      \* the directories under volumes/
    diReq           \* the request: position, :id, the error caught, answer

dlVars == <<dlIdx, dlPc, attempt, dlReq, dlTransient, dlFailed, dlRes, dlFile,
           dlCaller>>

stVars == <<diskLimit, hasAutoStopped, volumeBytes, running, wsOpen,
           statsInterval, ticks, stopCalls, firstExceeded>>

lgVars == <<containerLogs, chunks, conns, sent, logStreams, entry, powerEvents>>

pwVars == <<pwRecord, pwVolume, pwReq, pwSeen>>

depVars == <<states, volumes, containers, reqs>>

wsVars == <<wcUrl, wcAuth, wcSecret, wcState, wcClose, wcSession, wcPending,
           wcCalls, wcLast>>

nmVars == <<nmContainers, nmCreated, nmVolumes, nmStates, nmReq>>

vnVars == <<apiVersion, vnCalls>>

plVars == <<plBody, plCuts, plPos, lastStatus, plResult>>

upVars == <<upRecord, upVolume, upFiles, upTmp, upMoved, upReq>>

szVars == <<szTree, szLevel, currentDepth, totalSize, szWarned, szPc>>

sjVars == <<sjFile, sjOps>>

diVars == <<diContainer, diVolumes, diReq>>

vars == <<dlVars, stVars, lgVars, pwVars, depVars, wsVars,
    nmVars,
    vnVars,
    plVars,
    upVars,
    szVars,
    sjVars,
    diVars>>

\* What the actions of one part leave alone: the variables of the others.
exceptDl == <<stVars, lgVars, pwVars, depVars, wsVars,
    nmVars,
    vnVars,
    plVars,
    upVars,
    szVars,
    sjVars,
    diVars>>
exceptSt == <<dlVars, lgVars, pwVars, depVars, wsVars,
    nmVars,
    vnVars,
    plVars,
    upVars,
    szVars,
    sjVars,
    diVars>>
exceptLg == <<dlVars, stVars, pwVars, depVars, wsVars,
    nmVars,
    vnVars,
    plVars,
    upVars,
    szVars,
    sjVars,
    diVars>>
exceptPw == <<dlVars, stVars, lgVars, depVars, wsVars,
    nmVars,
    vnVars,
    plVars,
    upVars,
    szVars,
    sjVars,
    diVars>>
exceptDep == <<dlVars, stVars, lgVars, pwVars, wsVars,
    nmVars,
    vnVars,
    plVars,
    upVars,
    szVars,
    sjVars,
    diVars>>
exceptWs == <<dlVars, stVars, lgVars, pwVars, depVars,
    nmVars,
    vnVars,
    plVars,
    upVars,
    szVars,
    sjVars,
    diVars>>
exceptNm == <<dlVars, stVars, lgVars, pwVars, depVars, wsVars,
    vnVars,
    plVars,
    upVars,
    szVars,
    sjVars,
    diVars>>
exceptVn == <<dlVars, stVars, lgVars, pwVars, depVars, wsVars, nmVars,
    plVars,
    upVars,
    szVars,
    sjVars,
    diVars>>
exceptPl == <<dlVars, stVars, lgVars, pwVars, depVars, wsVars, nmVars, vnVars,
    upVars,
    szVars,
    sjVars,
    diVars>>
exceptUp == <<dlVars, stVars, lgVars, pwVars, depVars, wsVars, nmVars, vnVars, plVars,
    szVars,
    sjVars,
    diVars>>
exceptSz == <<dlVars, stVars, lgVars, pwVars, depVars, wsVars, nmVars, vnVars, plVars, upVars,
    sjVars,
    diVars>>
exceptSj == <<dlVars, stVars, lgVars, pwVars, depVars, wsVars, nmVars, vnVars, plVars, upVars, szVars,
    diVars>>
exceptDi == <<dlVars, stVars, lgVars, pwVars, depVars, wsVars, nmVars, vnVars, plVars, upVars, szVars, sjVars>>

(***************************************************************************)
(* Values shared by the parts                                              *)
(***************************************************************************)

\* A JSON value that is null or a number: <<>> is null, <<n>> the number n.
Null == <<>>
Num(n) == <<n>>

\* JavaScript's `v || 0` for such a value.
OrZero(v) == IF v = Null THEN 0 ELSE v[1]

\* One entry of storage/states.json; state "ABSENT" stands for a missing key.
NoRecord == [state |-> "ABSENT", containerId |-> Null, diskLimit |-> Null]
Record(st, cid, limit) == [state |-> st, containerId |-> cid, diskLimit |-> limit]

(***************************************************************************)
(* Install-script download                                                 *)
(***************************************************************************)

\* Number of entries of Scripts.Install in the modelled request.
NumScripts == 2

\* const maxAttempts = 3;
maxAttempts == 3

Scripts == 1..NumScripts

\* What one https.get can bring: a 200 response, the transient status 522,
\* another status, or a network error (the request's "error" event).
Responses == {"200", "522", "404", "neterr"}

IdleDl ==
    /\ dlIdx = 0
    /\ dlPc = "idle"
    /\ attempt = 0
    /\ dlReq = [i \in Scripts |-> 0]
    /\ dlTransient = [i \in Scripts |-> 0]
    /\ dlFailed = [i \in Scripts |-> 0]
    /\ dlRes = [i \in Scripts |-> "pending"]
    /\ dlFile = [i \in Scripts |-> "none"]
    /\ dlCaller = "running"

InitDl ==
    /\ dlIdx = 1
    /\ dlPc = "next"
    /\ attempt = 0
    /\ dlReq = [i \in Scripts |-> 0]
    /\ dlTransient = [i \in Scripts |-> 0]
    /\ dlFailed = [i \in Scripts |-> 0]
    /\ dlRes = [i \in Scripts |-> "pending"]
    /\ dlFile = [i \in Scripts |-> "none"]
    /\ dlCaller = "running"

\* for (const script of installScripts): the loop head.  With a script left,
\* downloadFile is entered: createWriteStream creates the (empty) file and
\* attempt starts at 0.  With none left, the function returns.
ScriptsLoop ==
    /\ dlPc = "next"
    /\ IF dlIdx <= NumScripts
         THEN /\ dlPc' = "while"
              /\ attempt' = 0
              /\ dlFile' = [dlFile EXCEPT ![dlIdx] = "empty"]
              /\ UNCHANGED dlCaller
         ELSE /\ dlPc' = "end"
              /\ dlCaller' = "returned"
              /\ UNCHANGED <<attempt, dlFile>>
    /\ UNCHANGED <<dlIdx, dlReq, dlTransient, dlFailed, dlRes>>
    /\ UNCHANGED exceptDl

\* while (attempt < maxAttempts) { attempt++; https.get(url) ...
WhileRequest ==
    /\ dlPc = "while"
    /\ attempt < maxAttempts
    /\ attempt' = attempt + 1
    /\ dlReq' = [dlReq EXCEPT ![dlIdx] = @ + 1]
    /\ dlPc' = "await"
    /\ UNCHANGED <<dlIdx, dlTransient, dlFailed, dlRes, dlFile, dlCaller>>
    /\ UNCHANGED exceptDl

\* The while condition is false: downloadFile returns normally, and
\* downloadInstallScripts logs success and goes to the next script.
WhileExit ==
    /\ dlPc = "while"
    /\ attempt >= maxAttempts
    /\ dlRes' = [dlRes EXCEPT ![dlIdx] = "returned"]
    /\ dlIdx' = dlIdx + 1
    /\ dlPc' = "next"
    /\ UNCHANGED <<attempt, dlReq, dlTransient, dlFailed, dlFile, dlCaller>>
    /\ UNCHANGED exceptDl

\* A downloadInstallScripts without the try/catch around downloadFile: the
\* error leaves the loop and reaches the caller.
ScriptCatchRethrows ==
    /\ dlPc' = "end"
    /\ dlCaller' = "threw"
    /\ UNCHANGED dlIdx

\* downloadInstallScripts' catch around downloadFile: log, next script.
ScriptCatch ==
    /\ dlIdx' = dlIdx + 1
    /\ dlPc' = "next"
    /\ UNCHANGED dlCaller

\* downloadFile's catch: unlink the file; on the last attempt throw, which
\* the caller's catch (ScriptCatch) receives; otherwise loop again.
AttemptCatch ==
    /\ dlFile' = [dlFile EXCEPT ![dlIdx] = "none"]
    /\ dlFailed' = [dlFailed EXCEPT ![dlIdx] = @ + 1]
    /\ IF attempt = maxAttempts
         THEN /\ dlRes' = [dlRes EXCEPT ![dlIdx] = "threw"]
              /\ ScriptCatch
         ELSE /\ dlPc' = "while"
              /\ UNCHANGED <<dlRes, dlIdx, dlCaller>>

\* The response (or the request's error) arrives.
OnResponse ==
    /\ dlPc = "await"
    /\ \E r \in Responses :
         CASE r = "522" ->
                /\ dlTransient' = [dlTransient EXCEPT ![dlIdx] = @ + 1]
                /\ dlPc' = "wait"
                /\ UNCHANGED <<dlIdx, dlFailed, dlRes, dlFile, dlCaller>>
           [] r = "200" ->
                /\ dlPc' = "pipe"
                /\ UNCHANGED <<dlIdx, dlTransient, dlFailed, dlRes, dlFile,
                               dlCaller>>
           [] OTHER ->
                /\ AttemptCatch
                /\ UNCHANGED dlTransient
    /\ UNCHANGED <<attempt, dlReq>>
    /\ UNCHANGED exceptDl

\* await new Promise(resolve => setTimeout(resolve, 60000)); continue;
WaitOver ==
    /\ dlPc = "wait"
    /\ dlPc' = "while"
    /\ UNCHANGED <<dlIdx, attempt, dlReq, dlTransient, dlFailed, dlRes, dlFile,
                   dlCaller>>
    /\ UNCHANGED exceptDl

\* await pipeline(response, writeStream): the body is written through the
\* stream opened at entry.  After an earlier attempt's unlink that stream's
\* file has no name any more ("none" stays "none").  The pipeline can fail.
PipeBody ==
    /\ dlPc = "pipe"
    /\ \/ /\ dlFile' = [dlFile EXCEPT ![dlIdx] =
                           IF @ = "empty" THEN "complete" ELSE @]
          /\ dlRes' = [dlRes EXCEPT ![dlIdx] = "returned"]
          /\ dlIdx' = dlIdx + 1
          /\ dlPc' = "next"
          /\ UNCHANGED <<dlCaller, dlFailed>>
       \/ AttemptCatch
    /\ UNCHANGED <<attempt, dlReq, dlTransient>>
    /\ UNCHANGED exceptDl

NextDl ==
    \/ ScriptsLoop
    \/ WhileRequest
    \/ WhileExit
    \/ OnResponse
    \/ WaitOver
    \/ PipeBody

(***************************************************************************)
(* Stats polling session                                                   *)
(***************************************************************************)

\* fetchStats invocations of one session: the one setupStatsStreaming awaits
\* and the interval's.
MaxTicks == 3

TickIds == 1..MaxTicks

\* Quotas (MiB) a record can hold and volume sizes (bytes) around a 2 MiB
\* quota: empty, one byte under 2 MiB, 2 MiB.
DiskLimits == {Null, Num(0), Num(2)}
VolumeSizes == {0, 2097151, 2097152}

\* (totalSize / (1024 * 1024)).toFixed(2), then parseFloat: the size in
\* hundredths of a MiB, rounded to the nearest, halves up.
getVolumeSize(bytes) == (bytes * 200 + 1024 * 1024) \div (2 * 1024 * 1024)

\* if (statesData[volumeId] && statesData[volumeId].diskLimit) diskLimit = ...
ReadDiskLimit(rec) ==
    IF rec.state /= "ABSENT" /\ OrZero(rec.diskLimit) /= 0
      THEN rec.diskLimit[1] ELSE 0

\* A storageExceeded that forgets that 0 means unlimited.
StorageExceededNoZero(limit, hundredths) == hundredths >= limit * 100

\* const storageExceeded = diskLimit > 0 && volumeSizeMiB >= diskLimit;
StorageExceeded(limit, hundredths) == limit > 0 /\ hundredths >= limit * 100

NoTick == [pc |-> "idle", size |-> 0, exceeded |-> FALSE, inspected |-> FALSE,
           sawRunning |-> FALSE, stopIssued |-> FALSE, frame |-> "none",
           notice |-> FALSE]

IdleSt ==
    /\ diskLimit = 0
    /\ hasAutoStopped = FALSE
    /\ volumeBytes = 0
    /\ running = FALSE
    /\ wsOpen = FALSE
    /\ statsInterval = "unset"
    /\ ticks = [k \in TickIds |-> NoTick]
    /\ stopCalls = 0
    /\ firstExceeded = 0

\* setupStatsStreaming up to its first fetchStats(): the quota is read from
\* the record under the path's volume selector.
InitSt ==
    /\ \E st \in {"ABSENT", "READY"}, lim \in DiskLimits :
         diskLimit = ReadDiskLimit(IF st = "ABSENT" THEN NoRecord
                                   ELSE Record(st, Null, lim))
    /\ hasAutoStopped = FALSE
    /\ volumeBytes \in VolumeSizes
    /\ running \in BOOLEAN
    /\ wsOpen = TRUE
    /\ statsInterval = "unset"
    /\ ticks = [k \in TickIds |-> [NoTick EXCEPT !.pc = IF k = 1 THEN "stats" ELSE "idle"]]
    /\ stopCalls = 0
    /\ firstExceeded = 0

\* ws.send(JSON.stringify(stats)) / ws.send(JSON.stringify({error})) ends an
\* invocation.  When the awaited first one ends, setupStatsStreaming sets the
\* interval and only then registers the close handler.
EndTick(k, t) ==
    /\ ticks' = [ticks EXCEPT ![k] = [t EXCEPT !.pc = "done"]]
    /\ statsInterval' = IF k = 1 THEN "set" ELSE statsInterval

\* The interval fires: the next fetchStats starts with container.stats().
IntervalFires(k) ==
    /\ statsInterval = "set"
    /\ ticks[k].pc = "idle"
    /\ \A j \in TickIds : j < k => ticks[j].pc /= "idle"
    /\ ticks' = [ticks EXCEPT ![k].pc = "stats"]
    /\ UNCHANGED <<diskLimit, hasAutoStopped, volumeBytes, running, wsOpen,
                   statsInterval, stopCalls, firstExceeded>>
    /\ UNCHANGED exceptSt

\* container.stats() fails: the catch sends the error frame.
StatsFails(k) ==
    /\ ticks[k].pc = "stats"
    /\ EndTick(k, [ticks[k] EXCEPT !.frame = "error"])
    /\ UNCHANGED <<diskLimit, hasAutoStopped, volumeBytes, running, wsOpen,
                   stopCalls, firstExceeded>>
    /\ UNCHANGED exceptSt

\* container.stats() returns: the volume size and storageExceeded are
\* computed; over quota with the latch unset, container.inspect() is
\* called, otherwise the frame is sent.
StatsReturns(k) ==
    /\ ticks[k].pc = "stats"
    /\ LET size == getVolumeSize(volumeBytes)
           over == StorageExceeded(diskLimit, size)
           t    == [ticks[k] EXCEPT !.size = size, !.exceeded = over]
       IN /\ firstExceeded' = IF over /\ firstExceeded = 0 THEN k
                                ELSE firstExceeded
          /\ IF over /\ ~hasAutoStopped
               THEN /\ ticks' = [ticks EXCEPT ![k] = [t EXCEPT !.pc = "inspect"]]
                    /\ UNCHANGED statsInterval
               ELSE EndTick(k, [t EXCEPT !.frame = "stats"])
    /\ UNCHANGED <<diskLimit, hasAutoStopped, volumeBytes, running, wsOpen,
                   stopCalls>>
    /\ UNCHANGED exceptSt

\* container.inspect() fails: the outer catch sends the error frame.
InspectFails(k) ==
    /\ ticks[k].pc = "inspect"
    /\ EndTick(k, [ticks[k] EXCEPT !.frame = "error"])
    /\ UNCHANGED <<diskLimit, hasAutoStopped, volumeBytes, running, wsOpen,
                   stopCalls, firstExceeded>>
    /\ UNCHANGED exceptSt

\* container.inspect() returns: if (containerInfo.State.Running) the latch
\* is set and container.stop() is called; otherwise the frame is sent.
InspectReturns(k) ==
    /\ ticks[k].pc = "inspect"
    /\ IF running
         THEN /\ hasAutoStopped' = TRUE
              /\ stopCalls' = stopCalls + 1
              /\ ticks' = [ticks EXCEPT ![k] = [@ EXCEPT !.pc = "stop",
                                    !.inspected = TRUE, !.sawRunning = TRUE,
                                    !.stopIssued = TRUE]]
              /\ UNCHANGED statsInterval
         ELSE /\ EndTick(k, [ticks[k] EXCEPT !.frame = "stats",
                                              !.inspected = TRUE])
              /\ UNCHANGED <<hasAutoStopped, stopCalls>>
    /\ UNCHANGED <<diskLimit, volumeBytes, running, wsOpen, firstExceeded>>
    /\ UNCHANGED exceptSt

\* container.stop() returns (the container is stopped, the notice is sent)
\* or throws (logged); the frame is sent in both cases.
StopReturns(k) ==
    /\ ticks[k].pc = "stop"
    /\ \/ /\ running' = FALSE
          /\ EndTick(k, [ticks[k] EXCEPT !.frame = "stats", !.notice = TRUE])
       \/ /\ UNCHANGED running
          /\ EndTick(k, [ticks[k] EXCEPT !.frame = "stats"])
    /\ UNCHANGED <<diskLimit, hasAutoStopped, volumeBytes, wsOpen, stopCalls,
                   firstExceeded>>
    /\ UNCHANGED exceptSt

\* ws "close": clearInterval, if the handler is registered already.
StatsClose ==
    /\ wsOpen
    /\ wsOpen' = FALSE
    /\ statsInterval' = IF statsInterval = "set" THEN "cleared" ELSE statsInterval
    /\ UNCHANGED <<diskLimit, hasAutoStopped, volumeBytes, running, ticks,
                   stopCalls, firstExceeded>>
    /\ UNCHANGED exceptSt

\* The world outside the session: files are written or deleted in the
\* volume; the container is started by someone, or exits.
VolumeChanges ==
    /\ \E b \in VolumeSizes : b /= volumeBytes /\ volumeBytes' = b
    /\ UNCHANGED <<diskLimit, hasAutoStopped, running, wsOpen, statsInterval,
                   ticks, stopCalls, firstExceeded>>
    /\ UNCHANGED exceptSt

ContainerFlips ==
    /\ running' = ~running
    /\ UNCHANGED <<diskLimit, hasAutoStopped, volumeBytes, wsOpen, statsInterval,
                   ticks, stopCalls, firstExceeded>>
    /\ UNCHANGED exceptSt

NextSt ==
    \/ \E k \in TickIds :
         \/ IntervalFires(k)
         \/ StatsFails(k)
         \/ StatsReturns(k)
         \/ InspectFails(k)
         \/ InspectReturns(k)
         \/ StopReturns(k)
    \/ StatsClose
    \/ VolumeChanges
    \/ ContainerFlips

(***************************************************************************)
(* Log relay                                                               *)
(***************************************************************************)

\* Chunks the container writes and power:* events received over the run.
MaxChunks == 3
MaxPowerEvents == 1

\* Two connections viewing the workload; every streamDockerLogs call asks
\* for one follow stream.
Conns == {1, 2}
StreamIds == 1..(Cardinality(Conns) + MaxPowerEvents)

\* A chunk's text, cut at "\n" as content.split('\n') cuts it: a list of
\* lines, 0 for an empty line and n for a line of text of chunk n.  Odd
\* chunks are one line and its newline, even chunks a newline alone.
ChunkTexts(n) == IF n % 2 = 1 THEN {<<n, 0>>} ELSE {<<0, 0>>}

NonEmptyLine(l) == l /= 0

\* formatLogMessage: the non-empty lines, each wrapped, joined.
formatLogMessage(logMessage) == SelectSeq(logMessage.content, NonEmptyLine)

LogFrame(logMessage) == [kind |-> "docker", text |-> formatLogMessage(logMessage)]
Notice(what) == [kind |-> what, text |-> <<>>]

RECURSIVE ReplayFrom(_, _)
ReplayFrom(buffer, i) ==
    IF i > Len(buffer) THEN <<>>
    ELSE <<LogFrame(buffer[i])>> \o ReplayFrom(buffer, i + 1)

\* A replay that honours the rate-limit check of the live path: nothing is
\* sent while the socket is buffering.
ReplaySkipsWhenBuffering(buffer, buffering) ==
    IF buffering THEN <<>> ELSE ReplayFrom(buffer, 1)

\* containerLogs[containerId].forEach(m => ws.send(formatLogMessage(m)))
Replay(buffer, buffering) == ReplayFrom(buffer, 1)

NoStream == [owner |-> 0, st |-> "free", pos |-> 0]

FreeStream == CHOOSE s \in StreamIds :
                 /\ logStreams[s].st = "free"
                 /\ \A t \in StreamIds : t < s => logStreams[t].st /= "free"

IdleLg ==
    /\ containerLogs = <<>>
    /\ chunks = <<>>
    /\ conns = [c \in Conns |-> [st |-> "closed", buffering |-> FALSE]]
    /\ sent = [c \in Conns |-> <<>>]
    /\ logStreams = [s \in StreamIds |-> NoStream]
    /\ entry = [c \in Conns |-> [at |-> 0, buffer |-> <<>>]]
    /\ powerEvents = 0

\* Connections that have authenticated on an /exec/ path (the banner is
\* sent) and whose inspect callback has not run yet.
InitLg ==
    /\ containerLogs = <<>>
    /\ chunks = <<>>
    /\ conns = [c \in Conns |-> [st |-> "authed", buffering |-> FALSE]]
    /\ sent = [c \in Conns |-> <<Notice("connected")>>]
    /\ logStreams = [s \in StreamIds |-> NoStream]
    /\ entry = [c \in Conns |-> [at |-> 0, buffer |-> <<>>]]
    /\ powerEvents = 0

\* streamDockerLogs(ws, container) up to its await: the buffer (created
\* empty when missing) is replayed to the connection, then container.logs
\* ({follow: true, tail: 0}) is called; the runtime follows from here on.
streamDockerLogs(c, buffer, before) ==
    /\ \E s \in StreamIds : logStreams[s].st = "free"
    /\ sent' = [sent EXCEPT ![c] = @ \o before \o Replay(buffer, conns[c].buffering)]
    /\ logStreams' = [logStreams EXCEPT ![FreeStream] =
                        [owner |-> c, st |-> "pending", pos |-> Len(chunks) + 1]]

\* handleWebSocketConnection's inspect callback on an /exec/ path:
\* setupExecSession, which is streamDockerLogs.
EnterExec(c) ==
    /\ conns[c].st = "authed"
    /\ streamDockerLogs(c, containerLogs, <<>>)
    /\ conns' = [conns EXCEPT ![c].st = "exec"]
    /\ entry' = [entry EXCEPT ![c] = [at |-> Len(sent[c]), buffer |-> containerLogs]]
    /\ UNCHANGED <<containerLogs, chunks, powerEvents>>
    /\ UNCHANGED exceptLg

\* container.logs() resolves: the data handler and the close handler are
\* registered.
LogsResolves(s) ==
    /\ logStreams[s].st = "pending"
    /\ logStreams' = [logStreams EXCEPT ![s].st = "live"]
    /\ UNCHANGED <<containerLogs, chunks, conns, sent, entry, powerEvents>>
    /\ UNCHANGED exceptLg

\* The container writes a chunk.
ContainerWrites ==
    /\ Len(chunks) < MaxChunks
    /\ \E text \in ChunkTexts(Len(chunks) + 1) : chunks' = Append(chunks, text)
    /\ UNCHANGED <<containerLogs, conns, sent, logStreams, entry, powerEvents>>
    /\ UNCHANGED exceptLg

\* An echo without the rate-limit check.
EchoAlways(c, frame) ==
    IF conns[c].st /= "closed" THEN [sent EXCEPT ![c] = Append(@, frame)]
    ELSE sent

\* if (ws.bufferedAmount === 0) ws.send(formattedMessage); a send on a
\* closed socket sends nothing.
Echo(c, frame) ==
    IF ~conns[c].buffering /\ conns[c].st /= "closed"
      THEN [sent EXCEPT ![c] = Append(@, frame)]
      ELSE sent

\* logStream.on("data"): the chunk is pushed to the buffer and, if
\* ws.bufferedAmount === 0, sent.
OnData(s) ==
    /\ logStreams[s].st = "live"
    /\ logStreams[s].pos <= Len(chunks)
    /\ LET c == logStreams[s].owner
           logMessage == [n |-> logStreams[s].pos, content |-> chunks[logStreams[s].pos]]
       IN /\ containerLogs' = Append(containerLogs, logMessage)
          /\ sent' = Echo(c, LogFrame(logMessage))
    /\ logStreams' = [logStreams EXCEPT ![s].pos = @ + 1]
    /\ UNCHANGED <<chunks, conns, entry, powerEvents>>
    /\ UNCHANGED exceptLg

\* The socket's outbound queue fills or drains.
SocketBuffers(c) ==
    /\ conns[c].st /= "closed"
    /\ conns' = [conns EXCEPT ![c].buffering = ~@]
    /\ UNCHANGED <<containerLogs, chunks, sent, logStreams, entry, powerEvents>>
    /\ UNCHANGED exceptLg

\* ws "close": every close handler registered so far destroys its stream.
LogClose(c) ==
    /\ conns[c].st /= "closed"
    /\ conns' = [conns EXCEPT ![c].st = "closed"]
    /\ logStreams' = [s \in StreamIds |->
                        IF logStreams[s].owner = c /\ logStreams[s].st = "live"
                          THEN [logStreams[s] EXCEPT !.st = "destroyed"]
                          ELSE logStreams[s]]
    /\ UNCHANGED <<containerLogs, chunks, sent, entry, powerEvents>>
    /\ UNCHANGED exceptLg

\* performPowerAction from its "Working on" message to its runtime call:
\* restart and stop empty the buffer, then streamDockerLogs runs.
PowerLogs(c, action) ==
    /\ conns[c].st /= "closed"
    /\ powerEvents < MaxPowerEvents
    /\ powerEvents' = powerEvents + 1
    /\ LET buffer == IF action \in {"restart", "stop"} THEN <<>> ELSE containerLogs
       IN /\ containerLogs' = buffer
          /\ streamDockerLogs(c, buffer, <<Notice("working")>>)
    /\ UNCHANGED <<chunks, conns, entry>>
    /\ UNCHANGED exceptLg

NextLg ==
    \/ \E c \in Conns : EnterExec(c)
    \/ \E s \in StreamIds : LogsResolves(s)
    \/ ContainerWrites
    \/ \E s \in StreamIds : OnData(s)
    \/ \E c \in Conns : SocketBuffers(c)
    \/ \E c \in Conns : LogClose(c)

\* The log relay with power events on its connections, the sockets never
\* buffering and staying open.
NextBuf ==
    \/ \E c \in Conns : EnterExec(c)
    \/ \E s \in StreamIds : LogsResolves(s)
    \/ ContainerWrites
    \/ \E s \in StreamIds : OnData(s)
    \/ \E c \in Conns, action \in {"start", "stop", "restart"} :
          PowerLogs(c, action)

(***************************************************************************)
(* Power requests and the quota admission check                            *)
(***************************************************************************)

\* The workload of this part: its runtime name and its container's id.
PwName == "w1"
PwContainerId == Num(1)

\* Volume directories: missing, or holding this many bytes (around 2 MiB:
\* 1.99 MiB, one byte less than 2 MiB, 2 MiB, 3 MiB).
PwVolumes == {Null, Num(0), Num(2086666), Num(2097151), Num(2097152),
              Num(3145728)}

\* Records the workload can have: none, INSTALLING (containerId null),
\* READY with its container's id; with each quota.
PwRecords ==
    {NoRecord} \cup
    {Record("INSTALLING", Null, lim) : lim \in DiskLimits} \cup
    {Record("READY", PwContainerId, lim) : lim \in DiskLimits}

HttpActions == {"start", "stop", "restart", "pause", "unpause", "kill"}
WsEvents == {"power:start", "power:stop", "power:restart"}

\* How a request names the container: docker accepts the id and the name.
ContainerRefs == {"id", "name"}

NoRequest == [via |-> "none", action |-> "none", ref |-> "id", pc |-> "idle",
              call |-> "none", sent |-> "none", reset |-> FALSE, logs |-> FALSE]

\* getStateForContainer(containerId): the entry whose containerId is the
\* request's :id, or null.  (One workload: one entry to look at.)
getStateForContainer(ref) ==
    IF pwRecord.state /= "ABSENT" /\ ref = "id" /\ pwRecord.containerId = PwContainerId
      THEN pwRecord ELSE NoRecord

\* calculateDirectorySize of utils/FileType, as the route uses it: the sum
\* of the file sizes under the directory; it throws when the directory
\* cannot be read.
sizeOf(volume) ==
    IF volume = Null THEN [threw |-> TRUE, bytes |-> 0]
    ELSE [threw |-> FALSE, bytes |-> volume[1]]

\* The power route's check: state && state.diskLimit && state.diskLimit > 0,
\* then currentSize / (1024 * 1024) >= state.diskLimit; a size that cannot
\* be computed allows the start.
HttpDenies(action, ref) ==
    LET state == getStateForContainer(ref) IN
      /\ action \in {"start", "restart"}
      /\ state.state /= "ABSENT"
      /\ OrZero(state.diskLimit) > 0
      /\ ~sizeOf(pwVolume).threw
      /\ sizeOf(pwVolume).bytes >= state.diskLimit[1] * 1024 * 1024

\* getVolumeSize's catch: "0" when the directory cannot be read.
WsVolumeSize == IF pwVolume = Null THEN 0 ELSE getVolumeSize(pwVolume[1])

\* performPowerAction's check, with the record found under the container's
\* name: statesData[volumeId] && diskLimit > 0, then volumeSizeMiB >= diskLimit.
WsDenies(action) ==
    /\ action \in {"start", "restart"}
    /\ pwRecord.state /= "ABSENT"
    /\ OrZero(pwRecord.diskLimit) > 0
    /\ WsVolumeSize >= pwRecord.diskLimit[1] * 100

\* const actionMap = { start, stop: container.kill, restart }
actionMap(action) == IF action = "stop" THEN "kill" ELSE action

\* performPowerAction after the check: "Working on ..." is sent, the log
\* buffer of the container is emptied for restart and stop, streamDockerLogs
\* is called and then the mapped runtime method.
Proceed(req) ==
    [req EXCEPT !.pc = "calling", !.call = actionMap(req.action),
                !.sent = "working",
                !.reset = (req.action \in {"restart", "stop"}),
                !.logs = TRUE]

RefuseAndProceed(req) == [Proceed(req) EXCEPT !.sent = "refusal"]

\* The check denies: the refusal is sent and the handler returns.
Refuse(req) == [req EXCEPT !.pc = "denied", !.sent = "refusal"]

IdlePw ==
    /\ pwRecord = NoRecord
    /\ pwVolume = Null
    /\ pwReq = NoRequest
    /\ pwSeen = [limit |-> 0, volume |-> Null]

InitPw ==
    /\ pwRecord \in PwRecords
    /\ pwVolume \in PwVolumes
    /\ pwReq = NoRequest
    /\ pwSeen = [limit |-> 0, volume |-> Null]

Seen == [limit |-> OrZero(pwRecord.diskLimit), volume |-> pwVolume]

\* POST /instances/:id/:power up to its runtime call: 400 for an unknown
\* action, 403 when the quota check denies, otherwise container[power]().
HttpPower(action, ref) ==
    /\ pwReq.pc = "idle"
    /\ pwSeen' = Seen
    /\ pwReq' = [via |-> "http", action |-> action, ref |-> ref,
                 pc |-> IF HttpDenies(action, ref) THEN "denied" ELSE "calling",
                 call |-> IF HttpDenies(action, ref) THEN "none" ELSE action,
                 sent |-> "none", reset |-> FALSE, logs |-> FALSE]
    /\ UNCHANGED <<pwRecord, pwVolume>>
    /\ UNCHANGED exceptPw

\* A power:* event on an authenticated connection: performPowerAction.  For
\* start and restart it first awaits container.inspect().
WsPower(event) ==
    /\ pwReq.pc = "idle"
    /\ LET action == CASE event = "power:start" -> "start"
                        [] event = "power:stop" -> "stop"
                        [] event = "power:restart" -> "restart"
           req == [via |-> "ws", action |-> action, ref |-> "id",
                   pc |-> "inspect", call |-> "none", sent |-> "none",
                   reset |-> FALSE, logs |-> FALSE]
       IN pwReq' = IF action \in {"start", "restart"} THEN req
                   ELSE Proceed(req)
    /\ pwSeen' = Seen
    /\ UNCHANGED <<pwRecord, pwVolume>>
    /\ UNCHANGED exceptPw

\* container.inspect() returns: the check runs; on denial the refusal is
\* sent and the handler returns; otherwise "Working on..." is sent and the
\* runtime method is called.
WsInspected ==
    /\ pwReq.pc = "inspect"
    /\ pwSeen' = Seen
    /\ pwReq' = IF WsDenies(pwReq.action) THEN Refuse(pwReq)
                  ELSE Proceed(pwReq)
    /\ UNCHANGED <<pwRecord, pwVolume>>
    /\ UNCHANGED exceptPw

\* container.inspect() rejects: the catch logs a warning and the action
\* goes ahead.
WsInspectFails ==
    /\ pwReq.pc = "inspect"
    /\ pwSeen' = Seen
    /\ pwReq' = Proceed(pwReq)
    /\ UNCHANGED <<pwRecord, pwVolume>>
    /\ UNCHANGED exceptPw

\* The runtime call returns or throws; or the denied request is over.
PowerDone ==
    /\ pwReq.pc \in {"calling", "denied"}
    /\ pwReq' = NoRequest
    /\ UNCHANGED <<pwRecord, pwVolume, pwSeen>>
    /\ UNCHANGED exceptPw

\* Files are written to or deleted from the volume.
PwVolumeChanges ==
    /\ \E v \in PwVolumes : v /= pwVolume /\ pwVolume' = v
    /\ UNCHANGED <<pwRecord, pwReq, pwSeen>>
    /\ UNCHANGED exceptPw

NextPw ==
    \/ \E action \in HttpActions, ref \in ContainerRefs : HttpPower(action, ref)
    \/ \E event \in WsEvents : WsPower(event)
    \/ WsInspected
    \/ WsInspectFails
    \/ PowerDone
    \/ PwVolumeChanges

(***************************************************************************)
(* Deployment routes: create, delete, redeploy, reinstall                  *)
(***************************************************************************)

\* Requests handled in one behaviour.
MaxRequests == 2
Reqs == 1..MaxRequests

\* Workload ids (the Id of a create body, the :Idd of redeploy/reinstall,
\* the runtime name of the container).
Ids == {"w1"}

\* Runtime ids: container 1 may exist at the start, request r's
\* docker.createContainer returns container r + 1.
Cids == 1..(MaxRequests + 1)
CidOf(r) == r + 1

NoContainer == [name |-> "none", running |-> FALSE]

\* How a request names a container: by runtime id or by name.
ById(c) == [by |-> "id", cid |-> c, name |-> "none"]
ByName(n) == [by |-> "name", cid |-> 0, name |-> n]
Refs == {ById(1)} \cup {ByName(n) : n \in Ids}

\* docker.getContainer(ref) as the daemon resolves it: the container's
\* runtime id, 0 when there is none.
Resolve(ref) ==
    IF ref.by = "id"
      THEN IF containers[ref.cid] /= NoContainer THEN ref.cid ELSE 0
      ELSE IF \E c \in Cids : containers[c].name = ref.name
             THEN CHOOSE c \in Cids : containers[c].name = ref.name
             ELSE 0

\* The Disk field of a request body: missing, or a number of MiB.
Disks == {Null, Num(50)}

\* ---- port validation ----

\* A HostPort is a text, kept as its characters.
HostPorts ==
    { <<"8", "0", "8", "0">>, <<"0">>, <<"6", "5", "5", "3", "5">>,
      <<"6", "5", "5", "3", "6">>, <<"7", "0", "0", "0", "0">>,
      <<"a", "b", "c">>, <<"8", "0", "8", "0", "a", "b", "c">>,
      <<"8", "0", ".", "5">>, <<"-", "1">>, <<>> }

\* The PortBindings of a create body: whether the body has the field, and
\* the HostPorts in the order the validation loop visits them.
PortBindingsInputs ==
    { [present |-> FALSE, hostPorts |-> <<>>], [present |-> TRUE, hostPorts |-> <<>>] }
    \cup { [present |-> TRUE, hostPorts |-> <<p>>] : p \in HostPorts }
    \cup { [present |-> TRUE, hostPorts |-> <<<<"8", "0", "8", "0">>, p>>] :
             p \in HostPorts }

HostPortsOf(pb) == IF pb.present THEN pb.hostPorts ELSE <<>>

Digits == {"0", "1", "2", "3", "4", "5", "6", "7", "8", "9"}
DigitVal(c) ==
    CASE c = "0" -> 0 [] c = "1" -> 1 [] c = "2" -> 2 [] c = "3" -> 3
      [] c = "4" -> 4 [] c = "5" -> 5 [] c = "6" -> 6 [] c = "7" -> 7
      [] c = "8" -> 8 [] c = "9" -> 9

\* The value of the longest run of digits at the front of text, after acc.
RECURSIVE LeadingDigits(_, _)
LeadingDigits(text, acc) ==
    IF text = <<>> \/ Head(text) \notin Digits THEN acc
    ELSE LeadingDigits(Tail(text), acc * 10 + DigitVal(Head(text)))

RECURSIVE SkipSpaces(_)
SkipSpaces(text) ==
    IF text /= <<>> /\ Head(text) = " " THEN SkipSpaces(Tail(text)) ELSE text

\* parseInt(text, 10): leading white space is skipped, a sign is read, then
\* as many digits as there are; NaN when there is no digit there.
parseInt(text) ==
    LET t == SkipSpaces(text)
        neg == t /= <<>> /\ Head(t) = "-"
        u == IF t /= <<>> /\ Head(t) \in {"-", "+"} THEN Tail(t) ELSE t
    IN IF u = <<>> \/ Head(u) \notin Digits
         THEN [nan |-> TRUE, val |-> 0]
         ELSE [nan |-> FALSE,
               val |-> IF neg THEN 0 - LeadingDigits(u, 0) ELSE LeadingDigits(u, 0)]

\* The validation loop's test for one binding.
PortRejected(text) ==
    LET port == parseInt(text) IN port.nan \/ port.val < 1 \/ port.val > 65535

\* createContainer's early validation: 400 at the first rejected HostPort;
\* skipped when the body has no PortBindings.
ValidationRejects(pb) ==
    \E i \in 1..Len(HostPortsOf(pb)) : PortRejected(HostPortsOf(pb)[i])

\* Object.values(PortBindings)[0][0].HostPort throws a TypeError when
\* PortBindings is missing or empty.
PrimaryPortThrows(pb) == HostPortsOf(pb) = <<>>

\* A text that is the decimal numeral of an integer in [1, 65535].
IsPortNumber(text) ==
    /\ text /= <<>>
    /\ \A i \in 1..Len(text) : text[i] \in Digits
    /\ LeadingDigits(text, 0) \in 1..65535

\* Some host port of the body is not an integer in [1, 65535].
HasInvalidPort(pb) ==
    \E i \in 1..Len(HostPortsOf(pb)) : ~IsPortNumber(HostPortsOf(pb)[i])

\* ---- requests ----

NoStates == [i \in Ids |-> NoRecord]

\* A request slot: the handler's position (pc) and its locals.
FreeSlot ==
    [kind |-> "none", pc |-> "free", id |-> "none", ref |-> ById(0),
     disk |-> Null, scripts |-> FALSE, noPorts |-> FALSE, badPort |-> FALSE,
     snap |-> NoStates, cid |-> 0, target |-> 0, running |-> FALSE,
     volumeExists |-> FALSE, installing |-> FALSE, notFound |-> FALSE,
     code |-> 0, result |-> "none"]

\* A handler that has returned: what is kept of it is its response.
Done(s, code, result) ==
    [FreeSlot EXCEPT !.kind = s.kind, !.pc = "done", !.id = s.id,
                     !.badPort = s.badPort, !.notFound = s.notFound,
                     !.code = code, !.result = result]

\* Slots are taken in order.
Arrives(r) ==
    /\ reqs[r].pc = "free"
    /\ \A q \in Reqs : q < r => reqs[q].pc /= "free"

\* The catch block of a handler: createContainer's writes FAILED (the 202
\* is out already, or no response is ever sent); redeploy's and reinstall's
\* answer 500 and write nothing.  When their 200 is out already,
\* res.status(500).json() throws on the sent headers: nothing more is sent
\* and the handler's promise rejects.
\* (CatchSilently: a catch that only logs.)
CatchSilently(s) == Done(s, s.code, "error")

Catch(s) ==
    IF s.kind = "create" THEN [s EXCEPT !.pc = "F_read"]
    ELSE IF s.code /= 0 THEN Done(s, s.code, "threw")
    ELSE Done(s, 500, "error")

\* The records updateState writes.
InstallingRecord(s) ==
    IF s.kind = "reinstall" THEN Record("INSTALLING", Null, Null)
    ELSE Record("INSTALLING", Null, Num(OrZero(s.disk)))

ReadyRecordNoContainer(s) ==
    IF s.kind = "reinstall" THEN Record("READY", Null, Null)
    ELSE Record("READY", Null, Num(OrZero(s.disk)))

ReadyRecord(s) ==
    IF s.kind = "reinstall" THEN Record("READY", Num(s.cid), Null)
    ELSE Record("READY", Num(s.cid), Num(OrZero(s.disk)))

\* (FailedRecordInstalling: a catch whose write leaves the record INSTALLING.)
FailedRecordInstalling(s) == Record("INSTALLING", Null, Num(OrZero(s.disk)))

FailedRecord(s) == Record("FAILED", Null, Num(OrZero(s.disk)))

\* delete states[volumeId]
KeepEntry(snap, id) == snap

DeleteEntry(snap, id) == [snap EXCEPT ![id] = NoRecord]

\* GET /state/:volumeId: states[volumeId] || { state: "UNKNOWN" }
getContainerState(st, id) ==
    IF st[id] = NoRecord THEN [state |-> "UNKNOWN"] ELSE st[id]

\* States the daemon can be in when the requests arrive: nothing deployed;
\* w1 deployed and running or stopped; w1's container gone from the runtime.
IdleDep ==
    /\ states = NoStates
    /\ volumes = {}
    /\ containers = [c \in Cids |-> NoContainer]
    /\ reqs = [r \in Reqs |-> FreeSlot]

InitDep ==
    /\ reqs = [r \in Reqs |-> FreeSlot]
    /\ \/ /\ states = NoStates
          /\ volumes = {}
          /\ containers = [c \in Cids |-> NoContainer]
       \/ \E run \in BOOLEAN :
          /\ states = [i \in Ids |-> Record("READY", Num(1), Num(100))]
          /\ volumes = Ids
          /\ containers = [c \in Cids |-> IF c = 1
                             THEN [name |-> "w1", running |-> run] ELSE NoContainer]
       \/ /\ states = [i \in Ids |-> Record("READY", Num(1), Num(100))]
          /\ volumes = Ids
          /\ containers = [c \in Cids |-> NoContainer]

\* ---- POST /instances/create ----

\* createContainer up to its first await: the port validation answers 400,
\* or fs.mkdir is called.
createContainer(r, id, pb, disk, scripts) ==
    /\ Arrives(r)
    /\ LET s == [FreeSlot EXCEPT !.kind = "create", !.id = id, !.disk = disk,
                                 !.scripts = scripts,
                                 !.badPort = HasInvalidPort(pb),
                                 !.noPorts = PrimaryPortThrows(pb)]
       IN reqs' = [reqs EXCEPT ![r] =
                     IF ValidationRejects(pb) THEN Done(s, 400, "rejected")
                     ELSE [s EXCEPT !.pc = "mkdir"]]
    /\ UNCHANGED <<states, volumes, containers>>
    /\ UNCHANGED exceptDep

\* fs.mkdir returns; primaryPort is read (a TypeError lands in the catch);
\* updateState(Id, "INSTALLING", null, Disk || 0) begins.
CreateMkdir(r) ==
    /\ reqs[r].pc = "mkdir"
    /\ volumes' = volumes \cup {reqs[r].id}
    /\ reqs' = [reqs EXCEPT ![r] =
                 IF reqs[r].noPorts THEN Catch(reqs[r])
                 ELSE [reqs[r] EXCEPT !.pc = "I_read"]]
    /\ UNCHANGED <<states, containers>>
    /\ UNCHANGED exceptDep

\* ---- updateState, readStates, writeStates ----

\* readStates returns the file's content.
ReadStates(r) ==
    /\ reqs[r].pc \in {"I_read", "R_read", "F_read", "D_read"}
    /\ reqs' = [reqs EXCEPT ![r] =
                 [reqs[r] EXCEPT !.snap = states,
                    !.pc = CASE reqs[r].pc = "I_read" -> "I_write"
                             [] reqs[r].pc = "R_read" -> "R_write"
                             [] reqs[r].pc = "F_read" -> "F_write"
                             [] reqs[r].pc = "D_read" -> "D_write"]]
    /\ UNCHANGED <<states, volumes, containers>>
    /\ UNCHANGED exceptDep

\* updateState's writeStates lands: the content read, with this entry set.
UpdateStateInstalling(r) ==
    /\ reqs[r].pc = "I_write"
    /\ states' = [reqs[r].snap EXCEPT ![reqs[r].id] = InstallingRecord(reqs[r])]
    /\ reqs' = [reqs EXCEPT ![r] =
                 [reqs[r] EXCEPT !.snap = NoStates, !.installing = TRUE,
                    !.pc = IF reqs[r].kind = "create" THEN "pull" ELSE "inspect"]]
    /\ UNCHANGED <<volumes, containers>>
    /\ UNCHANGED exceptDep

\* The READY write lands, or updateState throws (states.json cannot be
\* written) and the handler's catch runs.
UpdateStateReady(r, ok) ==
    /\ reqs[r].pc = "R_write"
    /\ IF ok
         THEN /\ states' = [reqs[r].snap EXCEPT ![reqs[r].id] = ReadyRecord(reqs[r])]
              /\ reqs' = [reqs EXCEPT ![r] = Done(reqs[r], reqs[r].code, "ready")]
         ELSE /\ reqs' = [reqs EXCEPT ![r] = Catch([reqs[r] EXCEPT !.snap = NoStates])]
              /\ UNCHANGED states
    /\ UNCHANGED <<volumes, containers>>
    /\ UNCHANGED exceptDep

UpdateStateFailed(r) ==
    /\ reqs[r].pc = "F_write"
    /\ states' = [reqs[r].snap EXCEPT ![reqs[r].id] = FailedRecord(reqs[r])]
    /\ reqs' = [reqs EXCEPT ![r] = Done(reqs[r], reqs[r].code, "failed")]
    /\ UNCHANGED <<volumes, containers>>
    /\ UNCHANGED exceptDep

\* ---- the pipeline's runtime calls ----

\* A pull failure that would fall through to the handler's outer catch.
PullFailedCaught(s) == Catch(s)

\* The catch around docker.pull: return res.status(500).
PullFailed(s) == Done(s, 500, "error")

\* docker.pull and followProgress: on success createContainer answers 202;
\* on failure every pipeline answers 500 and returns.
Pull(r, ok) ==
    /\ reqs[r].pc = "pull"
    /\ reqs' = [reqs EXCEPT ![r] =
                 IF ~ok THEN PullFailed(reqs[r])
                 ELSE [reqs[r] EXCEPT !.pc = "create",
                         !.code = IF reqs[r].kind = "create" THEN 202 ELSE 0]]
    /\ UNCHANGED <<states, volumes, containers>>
    /\ UNCHANGED exceptDep

\* docker.createContainer: the daemon refuses a name that is in use.
DockerCreate(r, ok) ==
    /\ reqs[r].pc = "create"
    /\ LET s == reqs[r]
           free == \A c \in Cids : containers[c].name /= s.id
       IN IF ok /\ free
            THEN /\ containers' = [containers EXCEPT ![CidOf(r)] =
                                     [name |-> s.id, running |-> FALSE]]
                 /\ reqs' = [reqs EXCEPT ![r] =
                              [s EXCEPT !.cid = CidOf(r),
                                 !.pc = IF s.scripts THEN "scripts" ELSE "start"]]
            ELSE /\ reqs' = [reqs EXCEPT ![r] = Catch(s)]
                 /\ UNCHANGED containers
    /\ UNCHANGED <<states, volumes>>
    /\ UNCHANGED exceptDep

\* downloadInstallScripts and replaceVariables.
ScriptsPhase(r, ok) ==
    /\ reqs[r].pc = "scripts"
    /\ reqs' = [reqs EXCEPT ![r] =
                 IF ok THEN [reqs[r] EXCEPT !.pc = "start"] ELSE Catch(reqs[r])]
    /\ UNCHANGED <<states, volumes, containers>>
    /\ UNCHANGED exceptDep

\* container.start(); redeploy and reinstall answer 200 before they write
\* READY.
ContainerStart(r, ok) ==
    /\ reqs[r].pc = "start"
    /\ LET s == reqs[r]
           there == containers[s.cid] /= NoContainer /\ ~containers[s.cid].running
       IN IF ok /\ there
            THEN /\ containers' = [containers EXCEPT ![s.cid].running = TRUE]
                 /\ reqs' = [reqs EXCEPT ![r] =
                              [s EXCEPT !.pc = "R_read",
                                 !.code = IF s.kind = "create" THEN s.code ELSE 200]]
            ELSE /\ reqs' = [reqs EXCEPT ![r] = Catch(s)]
                 /\ UNCHANGED containers
    /\ UNCHANGED <<states, volumes>>
    /\ UNCHANGED exceptDep

\* ---- POST /instances/redeploy/:id/:Idd, /instances/reinstall/:id/:Idd ----

\* Both begin with updateState(Idd, "INSTALLING", ...).
redeployContainer(r, ref, id, disk) ==
    /\ Arrives(r)
    /\ reqs' = [reqs EXCEPT ![r] =
                 [FreeSlot EXCEPT !.kind = "redeploy", !.pc = "I_read",
                                  !.ref = ref, !.id = id, !.disk = disk]]
    /\ UNCHANGED <<states, volumes, containers>>
    /\ UNCHANGED exceptDep

reinstallContainer(r, ref, id, scripts) ==
    /\ Arrives(r)
    /\ reqs' = [reqs EXCEPT ![r] =
                 [FreeSlot EXCEPT !.kind = "reinstall", !.pc = "I_read",
                                  !.ref = ref, !.id = id, !.scripts = scripts]]
    /\ UNCHANGED <<states, volumes, containers>>
    /\ UNCHANGED exceptDep

\* ---- DELETE /instances/:id and DELETE /instances/:id/delete ----

deleteContainer(r, ref, id) ==
    /\ Arrives(r)
    /\ reqs' = [reqs EXCEPT ![r] =
                 [FreeSlot EXCEPT !.kind = "delete", !.pc = "inspect",
                                  !.ref = ref, !.id = id]]
    /\ UNCHANGED <<states, volumes, containers>>
    /\ UNCHANGED exceptDep

deleteInstance(r, ref, id) ==
    /\ Arrives(r)
    /\ reqs' = [reqs EXCEPT ![r] =
                 [FreeSlot EXCEPT !.kind = "deleteInstance", !.pc = "inspect",
                                  !.ref = ref, !.id = id]]
    /\ UNCHANGED <<states, volumes, containers>>
    /\ UNCHANGED exceptDep

\* deleteInstance's catch for a message with "404": the directory named by
\* the request's :id is removed and the answer is a success.
CleanedUp(s) == IF s.ref.by = "name" THEN volumes \ {s.ref.name} ELSE volumes

\* container.inspect() returns or rejects with not-found.
Inspect(r) ==
    /\ reqs[r].pc = "inspect"
    /\ LET s == reqs[r]
           c == Resolve(s.ref)
       IN IF c = 0
            THEN /\ reqs' = [reqs EXCEPT ![r] =
                              IF s.kind = "deleteInstance"
                                THEN Done([s EXCEPT !.notFound = TRUE], 200, "cleaned")
                                ELSE Done([s EXCEPT !.notFound = TRUE], 500, "error")]
                 /\ volumes' = IF s.kind = "deleteInstance" THEN CleanedUp(s)
                               ELSE volumes
            ELSE /\ reqs' = [reqs EXCEPT ![r] =
                              [s EXCEPT !.target = c,
                                 !.running = containers[c].running,
                                 !.id = IF s.kind \in {"delete", "deleteInstance"}
                                          THEN containers[c].name ELSE s.id,
                                 !.pc = CASE s.kind = "delete" -> "access"
                                          [] s.kind = "deleteInstance" -> "forceRemove"
                                          [] OTHER -> IF containers[c].running
                                                        THEN "stop" ELSE "remove"]]
                 /\ UNCHANGED volumes
    /\ UNCHANGED <<states, containers>>
    /\ UNCHANGED exceptDep

\* fs.access(volumePath) settles.
Access(r) ==
    /\ reqs[r].pc = "access"
    /\ reqs' = [reqs EXCEPT ![r] =
                 [reqs[r] EXCEPT !.volumeExists = reqs[r].id \in volumes,
                    !.pc = IF reqs[r].running THEN "stop" ELSE "remove"]]
    /\ UNCHANGED <<states, volumes, containers>>
    /\ UNCHANGED exceptDep

\* container.stop(): an error when the container is gone or not running.
ContainerStop(r) ==
    /\ reqs[r].pc = "stop"
    /\ LET s == reqs[r] IN
         IF containers[s.target] /= NoContainer /\ containers[s.target].running
           THEN /\ containers' = [containers EXCEPT ![s.target].running = FALSE]
                /\ reqs' = [reqs EXCEPT ![r] = [s EXCEPT !.pc = "remove"]]
           ELSE /\ reqs' = [reqs EXCEPT ![r] = Done(s, 500, "error")]
                /\ UNCHANGED containers
    /\ UNCHANGED <<states, volumes>>
    /\ UNCHANGED exceptDep

\* A redeploy that creates the container from the local image, without
\* pulling.
AfterRemoveNoPull(s) ==
    IF s.kind = "delete"
      THEN [s EXCEPT !.pc = IF s.volumeExists THEN "rm" ELSE "D_read"]
      ELSE [s EXCEPT !.pc = "create"]

\* After container.remove(): delete removes the directory it saw; redeploy
\* and reinstall pull the image.
AfterRemove(s) ==
    IF s.kind = "delete"
      THEN [s EXCEPT !.pc = IF s.volumeExists THEN "rm" ELSE "D_read"]
      ELSE [s EXCEPT !.pc = "pull"]

\* container.remove(): an error when the container is gone or running.
ContainerRemove(r) ==
    /\ reqs[r].pc = "remove"
    /\ LET s == reqs[r] IN
         IF containers[s.target] /= NoContainer /\ ~containers[s.target].running
           THEN /\ containers' = [containers EXCEPT ![s.target] = NoContainer]
                /\ reqs' = [reqs EXCEPT ![r] = AfterRemove(s)]
           ELSE /\ reqs' = [reqs EXCEPT ![r] = Done(s, 500, "error")]
                /\ UNCHANGED containers
    /\ UNCHANGED <<states, volumes>>
    /\ UNCHANGED exceptDep

\* fs.rm(volumePath, { recursive, force }) returns; readStates begins.
RemoveVolume(r) ==
    /\ reqs[r].pc = "rm"
    /\ volumes' = volumes \ {reqs[r].id}
    /\ reqs' = [reqs EXCEPT ![r] = [reqs[r] EXCEPT !.pc = "D_read"]]
    /\ UNCHANGED <<states, containers>>
    /\ UNCHANGED exceptDep

\* deleteContainer's writeStates lands and 200 is answered.
DeleteWrite(r) ==
    /\ reqs[r].pc = "D_write"
    /\ states' = DeleteEntry(reqs[r].snap, reqs[r].id)
    /\ reqs' = [reqs EXCEPT ![r] = Done(reqs[r], 200, "deleted")]
    /\ UNCHANGED <<volumes, containers>>
    /\ UNCHANGED exceptDep

\* deleteInstance: container.remove({ force: true }) and fs.rmSync of the
\* directory named by the container; a not-found goes to the 404 catch.
ForceRemove(r) ==
    /\ reqs[r].pc = "forceRemove"
    /\ LET s == reqs[r] IN
         IF containers[s.target] /= NoContainer
           THEN /\ containers' = [containers EXCEPT ![s.target] = NoContainer]
                /\ volumes' = volumes \ {s.id}
                /\ reqs' = [reqs EXCEPT ![r] = Done(s, 200, "deleted")]
           ELSE /\ volumes' = CleanedUp(s)
                /\ reqs' = [reqs EXCEPT ![r] = Done(s, 200, "cleaned")]
                /\ UNCHANGED containers
    /\ UNCHANGED states
    /\ UNCHANGED exceptDep

\* ---- next-state relations ----

Requests ==
    \/ \E r \in Reqs, id \in Ids, pb \in PortBindingsInputs, disk \in Disks,
          scripts \in BOOLEAN : createContainer(r, id, pb, disk, scripts)
    \/ \E r \in Reqs, ref \in Refs, id \in Ids, disk \in Disks :
          redeployContainer(r, ref, id, disk)
    \/ \E r \in Reqs, ref \in Refs, id \in Ids, scripts \in BOOLEAN :
          reinstallContainer(r, ref, id, scripts)
    \/ \E r \in Reqs, ref \in Refs, id \in Ids : deleteContainer(r, ref, id)
    \/ \E r \in Reqs, ref \in Refs, id \in Ids : deleteInstance(r, ref, id)

Steps ==
    \/ \E r \in Reqs : CreateMkdir(r)
    \/ \E r \in Reqs : ReadStates(r)
    \/ \E r \in Reqs : UpdateStateInstalling(r)
    \/ \E r \in Reqs, ok \in BOOLEAN : UpdateStateReady(r, ok)
    \/ \E r \in Reqs : UpdateStateFailed(r)
    \/ \E r \in Reqs, ok \in BOOLEAN : Pull(r, ok)
    \/ \E r \in Reqs, ok \in BOOLEAN : DockerCreate(r, ok)
    \/ \E r \in Reqs, ok \in BOOLEAN : ScriptsPhase(r, ok)
    \/ \E r \in Reqs, ok \in BOOLEAN : ContainerStart(r, ok)
    \/ \E r \in Reqs : Inspect(r)
    \/ \E r \in Reqs : Access(r)
    \/ \E r \in Reqs : ContainerStop(r)
    \/ \E r \in Reqs : ContainerRemove(r)
    \/ \E r \in Reqs : RemoveVolume(r)
    \/ \E r \in Reqs : DeleteWrite(r)
    \/ \E r \in Reqs : ForceRemove(r)

\* Requests overlap: a handler runs at every await of another.
NextDep == Requests \/ Steps

\* Requests one at a time: a request arrives when no handler is pending.
NoHandlerPending == \A r \in Reqs : reqs[r].pc \in {"free", "done"}
NextSeq == (NoHandlerPending /\ Requests) \/ Steps

(***************************************************************************)
(* A WebSocket connection: authentication, session, events                 *)
(***************************************************************************)

\* req.url of the connection: its first path segment, and whether the
\* second segment (the container id) is there.
Urls == { [prefix |-> p, hasId |-> h] : p \in {"exec", "stats", "other"},
                                        h \in BOOLEAN }

\* The frames a client can send: one that is not JSON; an auth event with
\* the configured key, with another key, without args; the events of the
\* switch; any other event.
Frames == {"garbage", "auth_ok", "auth_bad", "auth_noargs", "cmd",
           "power:start", "power:stop", "power:restart", "other"}

\* What a handler step does to the socket: the messages it sends and the
\* code it closes with (0: no close).
InlineAndClose(msg) == [msgs |-> <<msg>>, close |-> 1008]

\* ws.send(msg) and nothing else.
Inline(msg) == [msgs |-> <<msg>>, close |-> 0]

RejectOpen(msg) == [msgs |-> <<msg>>, close |-> 0]

\* ws.send(msg); ws.close(1008, msg)
Reject(msg) == [msgs |-> <<msg>>, close |-> 1008]

Silent == [msgs |-> <<>>, close |-> 0]

\* The socket after a step: ws.close() on an open socket starts the closing
\* handshake with that code; later calls change nothing.
Socket(frame, effect) ==
    /\ wcLast' = [frame |-> frame, msgs |-> effect.msgs]
    /\ wcState' = IF effect.close /= 0 /\ wcState = "open" THEN "closing"
                  ELSE wcState
    /\ wcClose' = IF effect.close /= 0 /\ wcClose = 0 THEN effect.close
                  ELSE wcClose

NoStep == [frame |-> "none", msgs |-> <<>>]

IdleWs ==
    /\ wcUrl = [prefix |-> "exec", hasId |-> TRUE]
    /\ wcAuth = FALSE
    /\ wcSecret = FALSE
    /\ wcState = "closed"
    /\ wcClose = 0
    /\ wcSession = "none"
    /\ wcPending = {}
    /\ wcCalls = {}
    /\ wcLast = NoStep

\* wss.on("connection"): let isAuthenticated = false
InitWs ==
    /\ wcUrl \in Urls
    /\ wcAuth = FALSE
    /\ wcSecret = FALSE
    /\ wcState = "open"
    /\ wcClose = 0
    /\ wcSession = "none"
    /\ wcPending = {}
    /\ wcCalls = {}
    /\ wcLast = NoStep

\* authenticateWebSocket with its callback, for an auth event that has args.
Authenticate(f) ==
    IF f = "auth_ok"
      THEN IF wcUrl.hasId
             THEN \* callback(true): handleWebSocketConnection, inspect
                  /\ wcAuth' = TRUE
                  /\ wcSecret' = TRUE
                  /\ wcCalls' = wcCalls \cup {"inspect"}
                  /\ wcPending' = wcPending \cup {"bind"}
                  /\ Socket(f, [msgs |-> <<"connected">>, close |-> 0])
             ELSE \* close(1008), callback(false): send, close(1008)
                  /\ wcSecret' = TRUE
                  /\ Socket(f, [msgs |-> <<"connected", "Authentication failed">>,
                                close |-> 1008])
                  /\ UNCHANGED <<wcAuth, wcCalls, wcPending>>
      ELSE /\ Socket(f, Reject("Authentication failed"))
           /\ UNCHANGED <<wcAuth, wcSecret, wcCalls, wcPending>>

\* The switch on msg.event of an authenticated connection.
Dispatch(f) ==
    /\ UNCHANGED <<wcAuth, wcSecret>>
    /\ CASE f = "cmd" ->
              \* executeCommand: await container.attach
              /\ wcCalls' = wcCalls \cup {"attach"}
              /\ wcPending' = wcPending \cup {"attach"}
              /\ Socket(f, Silent)
         [] f \in {"power:start", "power:restart"} ->
              \* performPowerAction: await container.inspect for the quota
              /\ wcCalls' = wcCalls \cup {"inspect"}
              /\ wcPending' = wcPending \cup
                    {IF f = "power:start" THEN "quota:start" ELSE "quota:restart"}
              /\ Socket(f, Silent)
         [] f = "power:stop" ->
              \* "Working on stop...", streamDockerLogs, container.kill
              /\ wcCalls' = wcCalls \cup {"logs", "kill"}
              /\ wcPending' = wcPending \cup {"action"}
              /\ Socket(f, Inline("Working"))
         [] OTHER ->
              /\ Socket(f, Inline("Unsupported event"))
              /\ UNCHANGED <<wcCalls, wcPending>>

\* ws.on("message"): one frame arrives.
OnMessage(f) ==
    /\ wcState \in {"open", "closing"}
    /\ IF f = "garbage"
         THEN /\ Socket(f, Inline("Invalid JSON"))
              /\ UNCHANGED <<wcAuth, wcSecret, wcCalls, wcPending>>
         ELSE IF f \in {"auth_ok", "auth_bad"} THEN Authenticate(f)
         ELSE IF wcAuth THEN Dispatch(f)
         ELSE /\ Socket(f, Reject("Unauthorized access"))
              /\ UNCHANGED <<wcAuth, wcSecret, wcCalls, wcPending>>
    /\ UNCHANGED <<wcUrl, wcSession>>
    /\ UNCHANGED exceptWs

\* handleWebSocketConnection's inspect callback.
BindInspected(ok) ==
    /\ "bind" \in wcPending
    /\ IF ~ok
         THEN /\ Socket("none", Inline("Container not found"))
              /\ wcPending' = wcPending \ {"bind"}
              /\ UNCHANGED <<wcSession, wcCalls>>
         ELSE CASE wcUrl.prefix = "exec" ->
                     \* setupExecSession: streamDockerLogs
                     /\ wcSession' = "exec"
                     /\ wcCalls' = wcCalls \cup {"logs"}
                     /\ wcPending' = wcPending \ {"bind"}
                     /\ Socket("none", Silent)
                [] wcUrl.prefix = "stats" ->
                     \* setupStatsStreaming: the first fetchStats
                     /\ wcSession' = "stats"
                     /\ wcCalls' = wcCalls \cup {"stats"}
                     /\ wcPending' = (wcPending \ {"bind"}) \cup {"stats"}
                     /\ Socket("none", Silent)
                [] OTHER ->
                     /\ Socket("none", [msgs |-> <<>>, close |-> 1002])
                     /\ wcPending' = wcPending \ {"bind"}
                     /\ UNCHANGED <<wcSession, wcCalls>>
    /\ UNCHANGED <<wcUrl, wcAuth, wcSecret>>
    /\ UNCHANGED exceptWs

\* fetchStats ends: the stats frame, or { error } from its catch.
StatsFetched(ok) ==
    /\ "stats" \in wcPending
    /\ wcPending' = wcPending \ {"stats"}
    /\ Socket("none", IF ok THEN [msgs |-> <<"stats">>, close |-> 0]
                      ELSE Inline("stats error"))
    /\ UNCHANGED <<wcUrl, wcAuth, wcSecret, wcSession, wcCalls>>
    /\ UNCHANGED exceptWs

\* setInterval(fetchStats, 2000), until the socket's close event.
StatsTick ==
    /\ wcSession = "stats"
    /\ wcState /= "closed"
    /\ "stats" \notin wcPending
    /\ wcPending' = wcPending \cup {"stats"}
    /\ wcCalls' = wcCalls \cup {"stats"}
    /\ Socket("none", Silent)
    /\ UNCHANGED <<wcUrl, wcAuth, wcSecret, wcSession>>
    /\ UNCHANGED exceptWs

\* container.attach settles in executeCommand.
AttachDone(ok) ==
    /\ "attach" \in wcPending
    /\ wcPending' = wcPending \ {"attach"}
    /\ Socket("none", IF ok THEN Silent ELSE Inline("Failed to attach"))
    /\ UNCHANGED <<wcUrl, wcAuth, wcSecret, wcSession, wcCalls>>
    /\ UNCHANGED exceptWs

\* performPowerAction after its quota check: denied, or "Working on ...",
\* streamDockerLogs and the runtime call.
QuotaChecked(action, denied) ==
    /\ action \in {"start", "restart"}
    /\ LET p == IF action = "start" THEN "quota:start" ELSE "quota:restart" IN
         /\ p \in wcPending
         /\ IF denied
              THEN /\ wcPending' = wcPending \ {p}
                   /\ Socket("none", Inline("storage limit exceeded"))
                   /\ UNCHANGED wcCalls
              ELSE /\ wcPending' = (wcPending \ {p}) \cup {"action"}
                   /\ wcCalls' = wcCalls \cup {"logs", action}
                   /\ Socket("none", Inline("Working"))
    /\ UNCHANGED <<wcUrl, wcAuth, wcSecret, wcSession>>
    /\ UNCHANGED exceptWs

\* await actionMap[action]() settles.
ActionDone(ok) ==
    /\ "action" \in wcPending
    /\ wcPending' = wcPending \ {"action"}
    /\ Socket("none", IF ok THEN [msgs |-> <<"completed">>, close |-> 0]
                      ELSE Inline("Action failed"))
    /\ UNCHANGED <<wcUrl, wcAuth, wcSecret, wcSession, wcCalls>>
    /\ UNCHANGED exceptWs

\* The closing handshake ends, or the client goes away.
SocketCloses ==
    /\ wcState \in {"open", "closing"}
    /\ wcState' = "closed"
    /\ wcLast' = NoStep
    /\ UNCHANGED <<wcUrl, wcAuth, wcSecret, wcClose, wcSession, wcPending, wcCalls>>
    /\ UNCHANGED exceptWs

NextWs ==
    \/ \E f \in Frames : OnMessage(f)
    \/ \E ok \in BOOLEAN : BindInspected(ok)
    \/ \E ok \in BOOLEAN : StatsFetched(ok)
    \/ StatsTick
    \/ \E ok \in BOOLEAN : AttachDone(ok)
    \/ \E action \in {"start", "restart"}, denied \in BOOLEAN :
          QuotaChecked(action, denied)
    \/ \E ok \in BOOLEAN : ActionDone(ok)
    \/ SocketCloses

(***************************************************************************)
(* Container names, mounted volumes and state keys                         *)
(***************************************************************************)

\* Containers created in one behaviour.
MaxCreated == 3
NmCids == 1..MaxCreated

\* Texts that name things: workload ids, and the runtime id of container n
\* as a URL carries it.
NmIds == {<<"w", 1>>, <<"w", 2>>}
HexId(n) == <<"c", n>>
NmRefs == NmIds \cup {HexId(n) : n \in NmCids}

NoMount == [name |-> <<>>, bind |-> <<>>]

\* createContainerOptions(config, volumePath): name: config.Id,
\* Binds: [`${volumePath}:/app/data`]
createContainerOptions(Id, volume) == [name |-> Id, bind |-> volume]

\* docker.getContainer(ref).inspect(): the daemon finds the container by
\* runtime id or by name; 0 when there is none.
NmResolve(ref) ==
    IF \E n \in NmCids : /\ nmContainers[n] /= NoMount
                         /\ (HexId(n) = ref \/ nmContainers[n].name = ref)
      THEN CHOOSE n \in NmCids : /\ nmContainers[n] /= NoMount
                                 /\ (HexId(n) = ref \/ nmContainers[n].name = ref)
      ELSE 0

NoNmReq == [kind |-> "none", pc |-> "idle", target |-> 0, options |-> NoMount]

IdleNm ==
    /\ nmContainers = [n \in NmCids |-> NoMount]
    /\ nmCreated = MaxCreated
    /\ nmVolumes = {}
    /\ nmStates = {}
    /\ nmReq = NoNmReq

\* The daemon starts with no workload.
InitNm ==
    /\ nmContainers = [n \in NmCids |-> NoMount]
    /\ nmCreated = 0
    /\ nmVolumes = {}
    /\ nmStates = {}
    /\ nmReq = NoNmReq

\* POST /instances/create up to docker.createContainer: the volume
\* directory volumes/Id is made, the record is written under Id, and the
\* options are built from (Id, volumes/Id).
NmCreate(Id) ==
    /\ nmReq.pc = "idle"
    /\ nmCreated < MaxCreated
    /\ nmVolumes' = nmVolumes \cup {Id}
    /\ nmStates' = nmStates \cup {Id}
    /\ nmReq' = [kind |-> "create", pc |-> "create", target |-> 0,
                 options |-> createContainerOptions(Id, Id)]
    /\ UNCHANGED <<nmContainers, nmCreated>>
    /\ UNCHANGED exceptNm

\* POST /instances/redeploy/:id/:Idd and /instances/reinstall/:id/:Idd up to
\* container.stop(): the record is written under Idd, the container :id is
\* inspected (a missing one ends the request with 500), and the new options
\* will be built from the body's Id and volumes/Id.
NmRedeploy(kind, ref, Idd, Id) ==
    /\ nmReq.pc = "idle"
    /\ nmCreated < MaxCreated
    /\ nmStates' = nmStates \cup {Idd}
    /\ nmReq' = IF NmResolve(ref) = 0 THEN NoNmReq
                ELSE [kind |-> kind, pc |-> "remove", target |-> NmResolve(ref),
                      options |-> createContainerOptions(Id, Id)]
    /\ UNCHANGED <<nmContainers, nmCreated, nmVolumes>>
    /\ UNCHANGED exceptNm

\* PUT /instances/edit/:id up to container.stop(): the container is
\* inspected and the new options are built from the URL's id and
\* volumes/VolumeId of the body.
NmEdit(id, VolumeId) ==
    /\ nmReq.pc = "idle"
    /\ nmCreated < MaxCreated
    /\ NmResolve(id) /= 0
    /\ nmReq' = [kind |-> "edit", pc |-> "remove", target |-> NmResolve(id),
                 options |-> createContainerOptions(id, VolumeId)]
    /\ UNCHANGED <<nmContainers, nmCreated, nmVolumes, nmStates>>
    /\ UNCHANGED exceptNm

\* container.stop() and container.remove() return, or one of them throws
\* and the catch answers 500.
NmRemoved(ok) ==
    /\ nmReq.pc = "remove"
    /\ IF ok
         THEN /\ nmContainers' = [nmContainers EXCEPT ![nmReq.target] = NoMount]
              /\ nmReq' = [nmReq EXCEPT !.pc = "create"]
         ELSE /\ nmReq' = NoNmReq
              /\ UNCHANGED nmContainers
    /\ UNCHANGED <<nmCreated, nmVolumes, nmStates>>
    /\ UNCHANGED exceptNm

\* docker.createContainer(options) returns the new container, or throws (the
\* daemon refuses a name that is in use); the handler then runs to its end.
NmCreated(ok) ==
    /\ nmReq.pc = "create"
    /\ IF ok /\ \A n \in NmCids : nmContainers[n].name /= nmReq.options.name
         THEN /\ nmContainers' = [nmContainers EXCEPT ![nmCreated + 1] = nmReq.options]
              /\ nmCreated' = nmCreated + 1
         ELSE UNCHANGED <<nmContainers, nmCreated>>
    /\ nmReq' = NoNmReq
    /\ UNCHANGED <<nmVolumes, nmStates>>
    /\ UNCHANGED exceptNm

\* DELETE /instances/:id: the volume id is the inspected container's name;
\* the container is removed, then volumes/<name> and the record under it.
NmDelete(ref) ==
    /\ nmReq.pc = "idle"
    /\ NmResolve(ref) /= 0
    /\ LET volumeId == nmContainers[NmResolve(ref)].name
       IN /\ nmContainers' = [nmContainers EXCEPT ![NmResolve(ref)] = NoMount]
          /\ nmVolumes' = nmVolumes \ {volumeId}
          /\ nmStates' = nmStates \ {volumeId}
    /\ UNCHANGED <<nmCreated, nmReq>>
    /\ UNCHANGED exceptNm

\* Requests one at a time.
NextNm ==
    \/ \E Id \in NmIds : NmCreate(Id)
    \/ \E kind \in {"redeploy", "reinstall"}, ref \in NmRefs, Idd \in NmIds,
          Id \in NmIds : NmRedeploy(kind, ref, Idd, Id)
    \/ \E id \in NmRefs, VolumeId \in NmIds : NmEdit(id, VolumeId)
    \/ \E ok \in BOOLEAN : NmRemoved(ok)
    \/ \E ok \in BOOLEAN : NmCreated(ok)
    \/ \E ref \in NmRefs : NmDelete(ref)

(***************************************************************************)
(* The runtime client's API version                                        *)
(***************************************************************************)

\* _request calls made on one Docker instance in one behaviour.
MaxCalls == 3
VnCalls == 1..MaxCalls

\* The version the daemon reports at GET /version.
ReportedVersions == {"1.45"}

NoCall == [pc |-> "idle", version |-> Null]

IdleVn ==
    /\ apiVersion = Null
    /\ vnCalls = [k \in VnCalls |-> [pc |-> "done", version |-> Null]]

\* constructor: this.apiVersion = null
InitVn ==
    /\ apiVersion = Null
    /\ vnCalls = [k \in VnCalls |-> NoCall]

\* _request up to its first await that leaves the process: _getApiVersion
\* returns the cached version if there is one and the versioned request is
\* sent; otherwise GET /version is sent.
VnRequest(k) ==
    /\ vnCalls[k].pc = "idle"
    /\ vnCalls' = [vnCalls EXCEPT ![k] =
                     IF apiVersion /= Null
                       THEN [pc |-> "request", version |-> apiVersion]
                       ELSE [pc |-> "version", version |-> Null]]
    /\ UNCHANGED apiVersion
    /\ UNCHANGED exceptVn

\* GET /version answers with the daemon's ApiVersion: it is stored and the
\* versioned request is sent with it.
VnVersionReturns(k, reported) ==
    /\ vnCalls[k].pc = "version"
    /\ apiVersion' = Num(reported)
    /\ vnCalls' = [vnCalls EXCEPT ![k] = [pc |-> "request", version |-> Num(reported)]]
    /\ UNCHANGED exceptVn

\* GET /version fails: the catch stores "1.44" and the versioned request is
\* sent with it.
VnVersionFails(k) ==
    /\ vnCalls[k].pc = "version"
    /\ apiVersion' = Num("1.44")
    /\ vnCalls' = [vnCalls EXCEPT ![k] = [pc |-> "request", version |-> Num("1.44")]]
    /\ UNCHANGED exceptVn

\* The versioned request is answered.
VnAnswered(k) ==
    /\ vnCalls[k].pc = "request"
    /\ vnCalls' = [vnCalls EXCEPT ![k].pc = "done"]
    /\ UNCHANGED apiVersion
    /\ UNCHANGED exceptVn

NextVn ==
    \/ \E k \in VnCalls : VnRequest(k)
    \/ \E k \in VnCalls, reported \in ReportedVersions : VnVersionReturns(k, reported)
    \/ \E k \in VnCalls : VnVersionFails(k)
    \/ \E k \in VnCalls : VnAnswered(k)

(***************************************************************************)
(* Streamed image pull                                                     *)
(***************************************************************************)

\* Lines of one response body.
MaxFrames == 2

\* The text of a progress frame, of a frame with an error field, and of a
\* line that is not JSON; "{", "s"/"e", "}" stand for the opening brace, the
\* members and the closing brace of the object.
StatusText == <<"{", "s", "}">>
ErrorText == <<"{", "e", "}">>
BrokenText == <<"{", "s">>
FrameLines == {StatusText, ErrorText, BrokenText}

\* Bodies: up to MaxFrames lines, each ended by "\n".
RECURSIVE BodiesOf(_)
BodiesOf(n) ==
    IF n = 0 THEN {<<>>}
    ELSE BodiesOf(n - 1) \cup
         {b \o l \o <<"\n">> : b \in BodiesOf(n - 1), l \in FrameLines}
Bodies == BodiesOf(MaxFrames)

\* text.split("\n")
RECURSIVE Split(_, _)
Split(text, line) ==
    IF text = <<>> THEN <<line>>
    ELSE IF Head(text) = "\n" THEN <<line>> \o Split(Tail(text), <<>>)
    ELSE Split(Tail(text), Append(line, Head(text)))

\* JSON.parse(line): the value, or throws.
JSONParse(line) ==
    IF line = StatusText THEN [ok |-> TRUE, error |-> FALSE]
    ELSE IF line = ErrorText THEN [ok |-> TRUE, error |-> TRUE]
    ELSE [ok |-> FALSE, error |-> FALSE]

\* for (const line of lines) try { lastStatus = JSON.parse(line) } catch {}
RECURSIVE ParseLines(_, _)
ParseLines(lines, last) ==
    IF lines = <<>> THEN last
    ELSE ParseLines(Tail(lines),
                    IF Head(lines) /= <<>> /\ JSONParse(Head(lines)).ok
                      THEN Num(JSONParse(Head(lines)))
                      ELSE last)

\* res.on("data"): chunk.toString().split("\n").filter(l => l.trim()), then
\* the loop.
OnChunk(chunk, last) == ParseLines(Split(chunk, <<>>), last)

\* The chunk delivered next: up to the first cut after plPos, or the end.
NextEnd ==
    IF \E c \in plCuts : c > plPos
      THEN CHOOSE c \in plCuts : c > plPos /\ \A d \in plCuts : d > plPos => c <= d
      ELSE Len(plBody)

IdlePl ==
    /\ plBody = <<>>
    /\ plCuts = {}
    /\ plPos = 0
    /\ lastStatus = Null
    /\ plResult = "resolved"

\* The 2xx response has arrived: let lastStatus = null
InitPl ==
    /\ plBody \in Bodies
    /\ plCuts \in SUBSET (1..(Len(plBody) - 1))
    /\ plPos = 0
    /\ lastStatus = Null
    /\ plResult = "pending"

\* res.on("data")
PlData ==
    /\ plResult = "pending"
    /\ plPos < Len(plBody)
    /\ lastStatus' = OnChunk(SubSeq(plBody, plPos + 1, NextEnd), lastStatus)
    /\ plPos' = NextEnd
    /\ UNCHANGED <<plBody, plCuts, plResult>>
    /\ UNCHANGED exceptPl

\* res.on("end")
PlEnd ==
    /\ plResult = "pending"
    /\ plPos = Len(plBody)
    /\ plResult' = IF lastStatus /= Null /\ lastStatus[1].error THEN "rejected"
                   ELSE "resolved"
    /\ UNCHANGED <<plBody, plCuts, plPos, lastStatus>>
    /\ UNCHANGED exceptPl

NextPl == PlData \/ PlEnd

(***************************************************************************)
(* File upload and its quota check                                         *)
(***************************************************************************)

\* Files of one upload request.
MaxFiles == 2

\* File sizes in bytes: one byte, half a MiB, one MiB.
FileSizes == {1, 524288, 1048576}

\* req.files of a request: one to MaxFiles files.
Uploads == UNION { [1..n -> FileSizes] : n \in 1..MaxFiles }

\* Volumes around a 2 MiB quota: missing, empty, 1 MiB, one byte under
\* 2 MiB.
UpVolumes == {Null, Num(0), Num(1048576), Num(2097151)}

\* getDiskLimit(volumeId): the record's diskLimit when it is there and
\* truthy, else 0 (unlimited).
getDiskLimit(rec) ==
    IF rec.state /= "ABSENT" /\ OrZero(rec.diskLimit) /= 0
      THEN rec.diskLimit[1] ELSE 0

\* req.files.reduce((sum, file) => sum + file.size, 0)
RECURSIVE uploadSize(_)
uploadSize(files) ==
    IF files = <<>> THEN 0
    ELSE Head(files) + uploadSize(Tail(files))

\* currentSizeMiB + uploadSizeMiB > diskLimit, in bytes.
OverLimit(currentSize, incoming, limit) ==
    currentSize + incoming > limit * 1024 * 1024

NoUpload == [pc |-> "idle", code |-> 0, limit |-> 0, usage |-> 0]

IdleUp ==
    /\ upRecord = NoRecord
    /\ upVolume = Null
    /\ upFiles = <<>>
    /\ upTmp = {}
    /\ upMoved = {}
    /\ upReq = NoUpload

\* upload.array("files") has stored the request's files in tmp/ and the
\* handler starts.
InitUp ==
    /\ \E st \in {"ABSENT", "READY"}, lim \in DiskLimits :
         upRecord = IF st = "ABSENT" THEN NoRecord ELSE Record(st, Null, lim)
    /\ upVolume \in UpVolumes
    /\ upFiles \in Uploads
    /\ upTmp = DOMAIN upFiles
    /\ upMoved = {}
    /\ upReq = [NoUpload EXCEPT !.pc = "check"]

\* The handler up to its decision: getDiskLimit; with a limit,
\* calculateDirectorySize (a throw lands in the catch) and the comparison.
UpCheck ==
    /\ upReq.pc = "check"
    /\ LET limit == getDiskLimit(upRecord)
           size == sizeOf(upVolume)
       IN upReq' =
            IF limit > 0 /\ size.threw
              THEN [pc |-> "failed", code |-> 0, limit |-> limit, usage |-> 0]
            ELSE IF limit > 0 /\ OverLimit(size.bytes, uploadSize(upFiles), limit)
              THEN [pc |-> "denied", code |-> 0, limit |-> limit,
                    usage |-> size.bytes]
            ELSE [pc |-> "moving", code |-> 0, limit |-> limit,
                  usage |-> IF size.threw THEN 0 ELSE size.bytes]
    /\ UNCHANGED <<upRecord, upVolume, upFiles, upTmp, upMoved>>
    /\ UNCHANGED exceptUp

\* Denied: every temporary file is unlinked, then 413.
UpDenied ==
    /\ upReq.pc = "denied"
    /\ upTmp' = {}
    /\ upReq' = [upReq EXCEPT !.pc = "done", !.code = 413]
    /\ UNCHANGED <<upRecord, upVolume, upFiles, upMoved>>
    /\ UNCHANGED exceptUp

\* Admitted: safePath and the renames succeed, 200; or the directory is not
\* there and they throw into the catch.
UpMove ==
    /\ upReq.pc = "moving"
    /\ IF upVolume /= Null
         THEN /\ upMoved' = DOMAIN upFiles
              /\ upTmp' = {}
              /\ upVolume' = Num(upVolume[1] + uploadSize(upFiles))
              /\ upReq' = [upReq EXCEPT !.pc = "done", !.code = 200]
         ELSE /\ upReq' = [upReq EXCEPT !.pc = "failed"]
              /\ UNCHANGED <<upTmp, upMoved, upVolume>>
    /\ UNCHANGED <<upRecord, upFiles>>
    /\ UNCHANGED exceptUp

\* catch: the temporary files are unlinked, 500.
UpCatch ==
    /\ upReq.pc = "failed"
    /\ upTmp' = {}
    /\ upReq' = [upReq EXCEPT !.pc = "done", !.code = 500]
    /\ UNCHANGED <<upRecord, upVolume, upFiles, upMoved>>
    /\ UNCHANGED exceptUp

NextUp == UpCheck \/ UpDenied \/ UpMove \/ UpCatch

(***************************************************************************)
(* Volume size: the directory walk                                         *)
(***************************************************************************)

\* if (currentDepth >= 500)
MaxDepth == 500

\* How far below the cap the deepest tree goes.
DeeperBy == 2
TreeDepths == {3, MaxDepth + DeeperBy}

\* A JavaScript value that is undefined, NaN or a number.
Undefined == [kind |-> "undefined", n |-> 0]
NaN == [kind |-> "NaN", n |-> 0]
Number(n) == [kind |-> "number", n |-> n]

\* getVolumeSize: calculateDirectorySize(volumePath), no second argument.
EntryDepth == Undefined

\* currentDepth >= 500: undefined and NaN convert to NaN, and every
\* comparison with NaN is false.
AtMaxDepth(depth) == depth.kind = "number" /\ depth.n >= MaxDepth

\* currentDepth + 1: undefined + 1 and NaN + 1 are NaN.
PlusOne(depth) == IF depth.kind = "number" THEN Number(depth.n + 1) ELSE NaN

IdleSz ==
    /\ szTree = 0
    /\ szLevel = 0
    /\ currentDepth = Undefined
    /\ totalSize = 0
    /\ szWarned = FALSE
    /\ szPc = "returned"

\* getVolumeSize calls calculateDirectorySize on the volume's root.
InitSz ==
    /\ szTree \in TreeDepths
    /\ szLevel = 0
    /\ currentDepth = EntryDepth
    /\ totalSize = 0
    /\ szWarned = FALSE
    /\ szPc = "walking"

\* One call of calculateDirectorySize.  At the cap: the warning, return 0.
\* Below it: the directory's file is added; the call recurses into the
\* subdirectory with currentDepth + 1, or, in the deepest directory, the
\* calls return.
SzCall ==
    /\ szPc = "walking"
    /\ IF AtMaxDepth(currentDepth)
         THEN /\ szWarned' = TRUE
              /\ szPc' = "returned"
              /\ UNCHANGED <<szLevel, currentDepth, totalSize>>
         ELSE /\ totalSize' = totalSize + 1
              /\ UNCHANGED szWarned
              /\ IF szLevel < szTree
                   THEN /\ szLevel' = szLevel + 1
                        /\ currentDepth' = PlusOne(currentDepth)
                        /\ UNCHANGED szPc
                   ELSE /\ szPc' = "returned"
                        /\ UNCHANGED <<szLevel, currentDepth>>
    /\ UNCHANGED szTree
    /\ UNCHANGED exceptSz

NextSz == SzCall

(***************************************************************************)
(* One request with its install-script downloads in place                  *)
(***************************************************************************)

\* The handler and downloadInstallScripts together: the request of the
\* deployment part, whose "scripts" position is spent in the download loop.
NoRequestYet == \A r \in Reqs : reqs[r].pc = "free"

AtScripts == \E r \in Reqs : reqs[r].pc = "scripts"

\* await downloadInstallScripts(Scripts.Install, dir, variables): the
\* loop over Scripts.Install begins.
CallDownloadInstallScripts ==
    /\ AtScripts
    /\ dlPc = "idle"
    /\ dlIdx' = 1
    /\ dlPc' = "next"
    /\ UNCHANGED <<attempt, dlReq, dlTransient, dlFailed, dlRes, dlFile, dlCaller>>
    /\ UNCHANGED exceptDl

\* One step of the download loop while the handler awaits it.
DownloadStep == AtScripts /\ dlCaller = "running" /\ NextDl

\* downloadInstallScripts has returned; replaceVariables runs (its readdir
\* or JSON.parse can throw) and the handler goes on to container.start().
AfterDownload ==
    /\ dlCaller = "returned"
    /\ \E r \in Reqs, ok \in BOOLEAN : ScriptsPhase(r, ok)

\* The handler's other awaits.
HandlerSteps ==
    \/ \E r \in Reqs : CreateMkdir(r)
    \/ \E r \in Reqs : ReadStates(r)
    \/ \E r \in Reqs : UpdateStateInstalling(r)
    \/ \E r \in Reqs, ok \in BOOLEAN : UpdateStateReady(r, ok)
    \/ \E r \in Reqs : UpdateStateFailed(r)
    \/ \E r \in Reqs, ok \in BOOLEAN : Pull(r, ok)
    \/ \E r \in Reqs, ok \in BOOLEAN : DockerCreate(r, ok)
    \/ \E r \in Reqs, ok \in BOOLEAN : ContainerStart(r, ok)
    \/ \E r \in Reqs : Inspect(r)
    \/ \E r \in Reqs : Access(r)
    \/ \E r \in Reqs : ContainerStop(r)
    \/ \E r \in Reqs : ContainerRemove(r)
    \/ \E r \in Reqs : RemoveVolume(r)
    \/ \E r \in Reqs : DeleteWrite(r)
    \/ \E r \in Reqs : ForceRemove(r)

\* Every await of the handler returns: the continuation that is ready runs.
Continues ==
    \/ HandlerSteps
    \/ CallDownloadInstallScripts
    \/ DownloadStep
    \/ AfterDownload

NextLive == (NoRequestYet /\ Requests) \/ Continues

(***************************************************************************)
(* states.json: read-modify-write cycles of several ids                    *)
(***************************************************************************)

\* Number of cycles (updateState calls, deletes) that can be in flight.
MaxOps == 3
SjOps == 1..MaxOps

\* Two distinct workload ids.
SjIds == {"X", "Y"}

SjWritten == {"INSTALLING", "READY", "FAILED"}

NoOp == [pc |-> "idle", kind |-> "none", id |-> "none", rec |-> NoRecord,
         snap |-> [i \in SjIds |-> NoRecord]]

IdleSj ==
    /\ sjFile = [i \in SjIds |-> NoRecord]
    /\ sjOps = [o \in SjOps |-> NoOp]

InitSj ==
    /\ sjFile \in {[i \in SjIds |-> NoRecord],
                   [i \in SjIds |-> Record("READY", Num(1), Num(100))]}
    /\ sjOps = [o \in SjOps |-> NoOp]

\* updateState(volumeId, state, containerId, diskLimit) is called: it
\* awaits readStates().
updateState(o, volumeId, state) ==
    /\ sjOps[o].pc = "idle"
    /\ sjOps' = [sjOps EXCEPT ![o] =
                   [NoOp EXCEPT !.pc = "read", !.kind = "update", !.id = volumeId,
                                !.rec = Record(state, Null, Null)]]
    /\ UNCHANGED sjFile
    /\ UNCHANGED exceptSj

\* deleteContainer: const states = await readStates(); delete
\* states[volumeId]; await writeStates(states).
deleteStates(o, volumeId) ==
    /\ sjOps[o].pc = "idle"
    /\ sjOps' = [sjOps EXCEPT ![o] =
                   [NoOp EXCEPT !.pc = "read", !.kind = "delete", !.id = volumeId]]
    /\ UNCHANGED sjFile
    /\ UNCHANGED exceptSj

\* readStates resolves with the whole file, parsed.
readStates(o) ==
    /\ sjOps[o].pc = "read"
    /\ sjOps' = [sjOps EXCEPT ![o].snap = sjFile, ![o].pc = "write"]
    /\ UNCHANGED sjFile
    /\ UNCHANGED exceptSj

\* The object read, with this cycle's own key set or deleted.
Modified(op) == [op.snap EXCEPT ![op.id] = op.rec]

\* writeStates(states): the whole file is replaced by the modified object.
writeStates(o) ==
    /\ sjOps[o].pc = "write"
    /\ sjFile' = Modified(sjOps[o])
    /\ sjOps' = [sjOps EXCEPT ![o].pc = "done"]
    /\ UNCHANGED exceptSj

NextSj ==
    \/ \E o \in SjOps, i \in SjIds, st \in SjWritten : updateState(o, i, st)
    \/ \E o \in SjOps, i \in SjIds : deleteStates(o, i)
    \/ \E o \in SjOps : readStates(o)
    \/ \E o \in SjOps : writeStates(o)

(***************************************************************************)
(* DELETE /instances/:id/delete: runtime errors and their messages         *)
(***************************************************************************)

\* Texts are sequences of characters.  Two workloads; the container of
\* workload n is named n and has the runtime id DiHex(n); a request names a
\* container by either.
DiNames == {<<"w", "1">>, <<"w", "2">>}
DiHex(n) == <<"c", "0", "f">> \o n
DiIds == DiNames \cup {DiHex(n) : n \in DiNames}

\* The name of the container a request's :id stands for.
DiNameOf(id) == IF id \in DiNames THEN id
                ELSE CHOOSE n \in DiNames : DiHex(n) = id

Digits3(status) ==
    CASE status = 204 -> <<"2", "0", "4">>
      [] status = 404 -> <<"4", "0", "4">>
      [] status = 409 -> <<"4", "0", "9">>
      [] status = 500 -> <<"5", "0", "0">>

\* Bodies of the runtime's error answers: a plain text, and a text that
\* quotes an identifier in which the characters 404 occur.
ErrorBodies == { <<"n", "o">>, <<"i", "d", " ", "a", "4", "0", "4", "e">> }

\* What the runtime can answer to a call on the container: success when it
\* exists, 404 when it does not, 409 or 500 in either case.
RuntimeAnswers(exists) ==
    (IF exists THEN {[status |-> 204, body |-> <<>>]}
     ELSE {[status |-> 404, body |-> b] : b \in ErrorBodies})
    \cup {[status |-> s, body |-> b] : s \in {409, 500}, b \in ErrorBodies}

\* new Error(`Docker API Error: ${res.statusCode} - ${errorMessage}`)
DockerApiError(answer) ==
    <<"D", "o", "c", "k", "e", "r", " ", "A", "P", "I", " ",
      "E", "r", "r", "o", "r", ":", " ">>
        \o Digits3(answer.status) \o <<" ", "-", " ">> \o answer.body

\* String.prototype.includes
includes(text, part) ==
    \E i \in 1..(Len(text) - Len(part) + 1) :
        SubSeq(text, i, i + Len(part) - 1) = part

NoDiReq == [pc |-> "idle", id |-> <<>>, err |-> <<>>, code |-> 0]

IdleDi ==
    /\ diContainer = {}
    /\ diVolumes = {}
    /\ diReq = NoDiReq

\* The workloads' volume directories exist; each container exists or has
\* been removed outside the daemon.
InitDi ==
    /\ diContainer \in SUBSET DiNames
    /\ diVolumes = DiNames
    /\ diReq = NoDiReq

\* The request arrives: docker.getContainer(req.params.id), then
\* container.inspect() is awaited.
DiRequest(id) ==
    /\ diReq.pc \in {"idle", "done"}
    /\ diReq' = [NoDiReq EXCEPT !.pc = "inspect", !.id = id]
    /\ UNCHANGED <<diContainer, diVolumes>>
    /\ UNCHANGED exceptDi

\* The catch block: a message that includes "404" is taken for a container
\* that is gone; volumes/<req.params.id> is removed and the answer is a
\* success.  Any other message is answered with 500.
DiCatch(message) ==
    IF includes(message, <<"4", "0", "4">>)
      THEN /\ diVolumes' = diVolumes \ {diReq.id}
           /\ diReq' = [diReq EXCEPT !.pc = "done", !.err = message, !.code = 200]
      ELSE /\ diReq' = [diReq EXCEPT !.pc = "done", !.err = message, !.code = 500]
           /\ UNCHANGED diVolumes

\* await container.inspect() settles.
DiInspect(answer) ==
    /\ diReq.pc = "inspect"
    /\ answer \in RuntimeAnswers(DiNameOf(diReq.id) \in diContainer)
    /\ IF answer.status = 204
         THEN /\ diReq' = [diReq EXCEPT !.pc = "remove"]
              /\ UNCHANGED diVolumes
         ELSE DiCatch(DockerApiError(answer))
    /\ UNCHANGED diContainer
    /\ UNCHANGED exceptDi

\* await container.remove({ force: true }) settles; on success
\* fs.rmSync(volumes/<container name>) and the success answer follow.
DiRemove(answer) ==
    /\ diReq.pc = "remove"
    /\ answer \in RuntimeAnswers(DiNameOf(diReq.id) \in diContainer)
    /\ IF answer.status = 204
         THEN /\ diContainer' = diContainer \ {DiNameOf(diReq.id)}
              /\ diVolumes' = diVolumes \ {DiNameOf(diReq.id)}
              /\ diReq' = [diReq EXCEPT !.pc = "done", !.code = 200]
         ELSE /\ DiCatch(DockerApiError(answer))
              /\ UNCHANGED diContainer
    /\ UNCHANGED exceptDi

AllAnswers == RuntimeAnswers(TRUE) \cup RuntimeAnswers(FALSE)

NextDi ==
    \/ \E id \in DiIds : DiRequest(id)
    \/ \E answer \in AllAnswers : DiInspect(answer)
    \/ \E answer \in AllAnswers : DiRemove(answer)

(***************************************************************************)
(* Specifications: one per part, the other parts idle                      *)
(***************************************************************************)

DlAlone == InitDl /\ IdleSt /\ IdleLg /\ IdlePw /\ IdleDep /\ IdleWs
    /\ IdleNm
    /\ IdleVn
    /\ IdlePl
    /\ IdleUp
    /\ IdleSz
    /\ IdleSj
    /\ IdleDi
SpecDl == DlAlone /\ [][NextDl]_vars

StAlone == InitSt /\ IdleDl /\ IdleLg /\ IdlePw /\ IdleDep /\ IdleWs
    /\ IdleNm
    /\ IdleVn
    /\ IdlePl
    /\ IdleUp
    /\ IdleSz
    /\ IdleSj
    /\ IdleDi
SpecSt == StAlone /\ [][NextSt]_vars

LgAlone == InitLg /\ IdleDl /\ IdleSt /\ IdlePw /\ IdleDep /\ IdleWs
    /\ IdleNm
    /\ IdleVn
    /\ IdlePl
    /\ IdleUp
    /\ IdleSz
    /\ IdleSj
    /\ IdleDi
SpecLg == LgAlone /\ [][NextLg]_vars
SpecBuf == LgAlone /\ [][NextBuf]_vars

PwAlone == InitPw /\ IdleDl /\ IdleSt /\ IdleLg /\ IdleDep /\ IdleWs
    /\ IdleNm
    /\ IdleVn
    /\ IdlePl
    /\ IdleUp
    /\ IdleSz
    /\ IdleSj
    /\ IdleDi
SpecPw == PwAlone /\ [][NextPw]_vars

DepAlone == InitDep /\ IdleDl /\ IdleSt /\ IdleLg /\ IdlePw /\ IdleWs
    /\ IdleNm
    /\ IdleVn
    /\ IdlePl
    /\ IdleUp
    /\ IdleSz
    /\ IdleSj
    /\ IdleDi
SpecDep == DepAlone /\ [][NextDep]_vars

SeqAlone == InitDep /\ IdleDl /\ IdleSt /\ IdleLg /\ IdlePw /\ IdleWs
    /\ IdleNm
    /\ IdleVn
    /\ IdlePl
    /\ IdleUp
    /\ IdleSz
    /\ IdleSj
    /\ IdleDi
SpecSeq == SeqAlone /\ [][NextSeq]_vars

\* One request, its downloads in place, every await returning (Node's event
\* loop runs a continuation that is ready).
SpecLive == SeqAlone /\ [][NextLive]_vars /\ WF_vars(Continues)

WsAlone == InitWs /\ IdleDl /\ IdleSt /\ IdleLg /\ IdlePw /\ IdleDep
    /\ IdleNm
    /\ IdleVn
    /\ IdlePl
    /\ IdleUp
    /\ IdleSz
    /\ IdleSj
    /\ IdleDi
SpecWs == WsAlone /\ [][NextWs]_vars

NmAlone == InitNm /\ IdleDl /\ IdleSt /\ IdleLg /\ IdlePw /\ IdleDep /\ IdleWs
    /\ IdleVn
    /\ IdlePl
    /\ IdleUp
    /\ IdleSz
    /\ IdleSj
    /\ IdleDi
SpecNm == NmAlone /\ [][NextNm]_vars

VnAlone == InitVn /\ IdleDl /\ IdleSt /\ IdleLg /\ IdlePw /\ IdleDep /\ IdleWs
    /\ IdleNm
    /\ IdlePl
    /\ IdleUp
    /\ IdleSz
    /\ IdleSj
    /\ IdleDi
SpecVn == VnAlone /\ [][NextVn]_vars

PlAlone == InitPl /\ IdleDl /\ IdleSt /\ IdleLg /\ IdlePw /\ IdleDep /\ IdleWs
    /\ IdleNm /\ IdleVn
    /\ IdleUp
    /\ IdleSz
    /\ IdleSj
    /\ IdleDi
SpecPl == PlAlone /\ [][NextPl]_vars

UpAlone == InitUp /\ IdleDl /\ IdleSt /\ IdleLg /\ IdlePw /\ IdleDep /\ IdleWs
    /\ IdleNm /\ IdleVn /\ IdlePl
    /\ IdleSz
    /\ IdleSj
    /\ IdleDi
SpecUp == UpAlone /\ [][NextUp]_vars

SzAlone == InitSz /\ IdleDl /\ IdleSt /\ IdleLg /\ IdlePw /\ IdleDep /\ IdleWs
    /\ IdleNm /\ IdleVn /\ IdlePl /\ IdleUp
    /\ IdleSj
    /\ IdleDi
SpecSz == SzAlone /\ [][NextSz]_vars

SjAlone == InitSj /\ IdleDl /\ IdleSt /\ IdleLg /\ IdlePw /\ IdleDep /\ IdleWs
    /\ IdleNm /\ IdleVn /\ IdlePl /\ IdleUp /\ IdleSz
    /\ IdleDi
SpecSj == SjAlone /\ [][NextSj]_vars

DiAlone == InitDi /\ IdleDl /\ IdleSt /\ IdleLg /\ IdlePw /\ IdleDep /\ IdleWs
    /\ IdleNm /\ IdleVn /\ IdlePl /\ IdleUp /\ IdleSz /\ IdleSj
SpecDi == DiAlone /\ [][NextDi]_vars

(***************************************************************************)
(* Properties                                                              *)
(***************************************************************************)

\* C10: a script whose every attempt ended in a non-transient failure (a
\* status other than 200 and 522, a network error, a failed body transfer)
\* is given up after exactly maxAttempts = 3 requests, never fewer and never
\* more; the failure does not reach the caller of downloadInstallScripts
\* (so the deploy is not marked FAILED by it), and when the function has
\* returned every script of the list has been requested.
C10_RetryBudget ==
    /\ \A i \in Scripts :
         (dlReq[i] > 0 /\ dlFailed[i] = dlReq[i]) =>
            /\ dlReq[i] <= maxAttempts
            /\ dlRes[i] /= "returned"
            /\ (dlRes[i] = "threw" <=> dlReq[i] = maxAttempts)
    /\ dlCaller /= "threw"
    /\ dlCaller = "returned" =>
         \A j \in Scripts : dlReq[j] >= 1 /\ dlRes[j] /= "pending"

\* A run where the first script failed three times with non-transient
\* errors and a later script was still downloaded completely.
C10_Witness ==
    /\ dlCaller = "returned"
    /\ dlFailed[1] = maxAttempts /\ dlReq[1] = maxAttempts
    /\ dlRes[1] = "threw"
    /\ dlFile[NumScripts] = "complete"

\* C7: within one stats session, once an invocation of fetchStats has seen
\* usage >= quota with the container running, the session has issued
\* exactly one container.stop() call, and it never issues a second one,
\* overlapping invocations included.
C7_ExactlyOneStop ==
    /\ stopCalls <= 1
    /\ (\E k \in TickIds : ticks[k].exceeded /\ ticks[k].sawRunning) =>
          stopCalls = 1

\* C8: every stats frame carries storageExceeded = (diskLimit > 0 and the
\* frame's volume size >= diskLimit); an invocation that computed usage >=
\* quota and was told by inspect that the container runs has issued a stop
\* call, and the frame it sends carries storageExceeded = true; the first
\* invocation to compute usage >= quota is never held back by the latch.
C8_StatsFrame ==
    /\ \A k \in TickIds :
         LET t == ticks[k] IN
           /\ t.frame = "stats" =>
                (t.exceeded <=> (diskLimit > 0 /\ t.size >= 100 * diskLimit))
           /\ t.sawRunning => t.exceeded /\ t.stopIssued /\ stopCalls >= 1
           /\ (t.sawRunning /\ t.pc = "done") => t.frame = "stats"
    /\ firstExceeded /= 0 =>
         LET f == ticks[firstExceeded] IN
           /\ f.exceeded
           /\ (f.pc = "done" /\ f.frame = "stats") => f.inspected

\* The first over-quota invocation saw the container running, stopped it
\* and sent its frame with storageExceeded = true.
C8_Witness ==
    /\ firstExceeded /= 0
    /\ LET f == ticks[firstExceeded] IN
         /\ f.pc = "done" /\ f.frame = "stats" /\ f.exceeded
         /\ f.sawRunning /\ f.stopIssued /\ f.notice
         /\ f.size >= 100 * diskLimit
    /\ ~running

\* C9: a connection that enters log-relay mode while the LogBuffer holds N
\* entries is sent exactly these N entries, formatted, in buffer order,
\* as the first N messages after its entry: before any line that arrives
\* later, for every N and whatever the other connection does.
C9_ReplayFirst ==
    \A c \in Conns :
        entry[c].at > 0 =>
            LET N == Len(entry[c].buffer) IN
              /\ Len(sent[c]) >= entry[c].at + N
              /\ \A i \in 1..N :
                   sent[c][entry[c].at + i] = LogFrame(entry[c].buffer[i])

\* A connection entered with at least two buffered entries and has been
\* sent the last chunk as a live line after the replay.
C9_Witness ==
    \E c \in Conns :
        /\ entry[c].at > 0
        /\ Len(entry[c].buffer) >= 2
        /\ Len(sent[c]) > entry[c].at + Len(entry[c].buffer)
        /\ sent[c][Len(sent[c])] = LogFrame([content |-> chunks[MaxChunks]])

\* C6: with persisted quota Q (MiB) and volume usage U at the moment of the
\* admission decision, a power request is denied if and only if it is a
\* start or restart and Q > 0 and U >= Q; so never when Q = 0, and never for
\* stop, kill, pause, unpause.
C6_DeniedIffOverQuota ==
    pwReq.pc \in {"denied", "calling"} =>
        ( pwReq.pc = "denied" <=>
            /\ pwReq.action \in {"start", "restart"}
            /\ pwSeen.limit > 0
            /\ pwSeen.volume /= Null
            /\ pwSeen.volume[1] >= pwSeen.limit * 1024 * 1024 )

\* C1: when a create request's pipeline completes without error, its last
\* step leaves the workload's record as READY with containerId the id that
\* container creation returned and diskLimit the requested quota (0 if
\* none), and the request wrote INSTALLING before.
C1_CreateEndsReady ==
    [][\A r \in Reqs :
         (reqs[r].kind = "create" /\ reqs[r].pc = "R_write" /\ reqs'[r].pc = "done")
         => /\ states'[reqs[r].id] =
                 Record("READY", Num(CidOf(r)), Num(OrZero(reqs[r].disk)))
            /\ reqs[r].cid = CidOf(r)
            /\ reqs[r].installing]_vars

\* A create request has completed and the record is READY with its container.
C1_Witness ==
    \E r \in Reqs :
        /\ reqs[r].kind = "create" /\ reqs[r].result = "ready"
        /\ states[reqs[r].id].state = "READY"
        /\ states[reqs[r].id].containerId = Num(CidOf(r))
        /\ states[reqs[r].id].diskLimit = Num(50)

\* C2: a create request with some host port that is not an integer in
\* [1, 65535] is answered 400 at once; the StateStore and the volume
\* directories are as before, no pull follows, and GET state for an id that
\* had no entry returns UNKNOWN.
C2_InvalidPortRejected ==
    [][\A r \in Reqs :
         (reqs[r].pc = "free" /\ reqs'[r].kind = "create" /\ reqs'[r].badPort)
         => /\ reqs'[r].pc = "done"
            /\ reqs'[r].code = 400
            /\ states' = states
            /\ volumes' = volumes
            /\ (states[reqs'[r].id] = NoRecord
                  => getContainerState(states', reqs'[r].id).state = "UNKNOWN")]_vars

\* C3: under any interleaving of the requests, a workload's lifecycle state
\* changes only from absent to INSTALLING, from INSTALLING to READY or
\* FAILED, from READY or FAILED to INSTALLING, or to absent by a delete.
C3_LifecycleTransitions ==
    [][\A i \in Ids :
         states'[i].state /= states[i].state
         => \/ states[i].state = "ABSENT" /\ states'[i].state = "INSTALLING"
            \/ states[i].state = "INSTALLING" /\ states'[i].state \in {"READY", "FAILED"}
            \/ states[i].state \in {"READY", "FAILED"} /\ states'[i].state = "INSTALLING"
            \/ /\ states'[i].state = "ABSENT"
               /\ \E r \in Reqs : reqs[r].kind = "delete" /\ reqs[r].pc = "D_write"]_vars

\* C4: a delete (either delete route) of a workload that still has a volume
\* directory or a StateStore entry, whose inspect returned not-found, answers
\* with success and leaves neither the directory nor the entry.
C4_DeleteGoneContainer ==
    [][\A r \in Reqs :
         ( /\ reqs[r].kind \in {"delete", "deleteInstance"}
           /\ reqs[r].pc /= "done" /\ reqs'[r].pc = "done"
           /\ reqs'[r].notFound
           /\ (reqs[r].id \in volumes \/ states[reqs[r].id] /= NoRecord) )
         => /\ reqs'[r].code = 200
            /\ reqs[r].id \notin volumes'
            /\ states'[reqs[r].id] = NoRecord]_vars

\* C5: when a delete request for an existing container answers with success,
\* the container it inspected is gone from the runtime, the directory named
\* by the container's name does not exist, and the StateStore has no entry
\* under that name: GET state returns UNKNOWN.
C5_DeleteRemovesAll ==
    [][\A r \in Reqs :
         ( /\ reqs[r].kind = "delete"
           /\ reqs[r].pc /= "done" /\ reqs'[r].pc = "done"
           /\ reqs'[r].code = 200 )
         => /\ reqs[r].target /= 0
            /\ containers'[reqs[r].target] = NoContainer
            /\ reqs[r].id \notin volumes'
            /\ states'[reqs[r].id] = NoRecord
            /\ getContainerState(states', reqs[r].id).state = "UNKNOWN"]_vars

\* A delete of a container that was running has answered 200; the record,
\* the directory and the container are gone.
C5_Witness ==
    \E r \in Reqs :
        /\ reqs[r].kind = "delete" /\ reqs[r].code = 200
        /\ states[reqs[r].id] = NoRecord
        /\ reqs[r].id \notin volumes
        /\ \A c \in Cids : containers[c] = NoContainer

\* C11: a transient (522) response does not use up the attempt budget: the
\* attempts counted for the script being downloaded are its requests minus
\* its transient responses, and a script all of whose responses were
\* transient is never finished, neither returned nor given up.
C11_TransientNotCounted ==
    /\ (dlPc \in {"while", "wait"} /\ dlIdx \in Scripts) =>
          attempt = dlReq[dlIdx] - dlTransient[dlIdx]
    /\ \A i \in Scripts :
          (dlReq[i] > 0 /\ dlTransient[i] = dlReq[i]) => dlRes[i] = "pending"

\* C12: when the image pull of a create request fails, the request ends
\* there with an error response; no container has been created for it, and
\* the workload's record is left as the request's INSTALLING write made it.
C12_PullFailure ==
    [][\A r \in Reqs :
         (reqs[r].kind = "create" /\ reqs[r].pc = "pull" /\ reqs'[r].code /= 202)
         => /\ reqs'[r].pc = "done"
            /\ reqs'[r].code = 500
            /\ states' = states
            /\ states'[reqs[r].id] = InstallingRecord(reqs[r])
            /\ containers' = containers
            /\ containers'[CidOf(r)] = NoContainer]_vars

\* A create request has ended with 500 and the record is INSTALLING.
C12_Witness ==
    \E r \in Reqs :
        /\ reqs[r].kind = "create" /\ reqs[r].pc = "done" /\ reqs[r].code = 500
        /\ states[reqs[r].id].state = "INSTALLING"
        /\ containers[CidOf(r)] = NoContainer

C14_OneResponse ==
    \A r \in Reqs :
        (reqs[r].kind \in {"create", "redeploy", "reinstall"} /\ reqs[r].pc = "done")
        => reqs[r].code /= 0

\* C15: a create request without port bindings, or with an empty table of
\* them, is answered with a client error at once and leaves the StateStore
\* and the volume directories as they were.
C15_MissingFieldRejected ==
    [][\A r \in Reqs :
         (reqs[r].pc = "free" /\ reqs'[r].kind = "create" /\ reqs'[r].noPorts)
         => /\ reqs'[r].pc = "done"
            /\ reqs'[r].code \in 400..499
            /\ states' = states
            /\ volumes' = volumes]_vars

\* C16: a redeploy or reinstall request that wrote INSTALLING and ends in
\* an error leaves the workload's record FAILED.
C16_ErrorEndsFailed ==
    [][\A r \in Reqs :
         ( /\ reqs[r].kind \in {"redeploy", "reinstall"}
           /\ reqs[r].installing
           /\ reqs[r].pc /= "done" /\ reqs'[r].pc = "done"
           /\ reqs'[r].result \in {"error", "threw"} )
         => states'[reqs[r].id].state = "FAILED"]_vars

\* C17: a start, stop or restart call reaches the runtime only while the
\* workload's persisted lifecycle state is READY.
C17_PowerOnlyWhenReady ==
    (pwReq.pc = "calling" /\ pwReq.action \in {"start", "stop", "restart"})
    => pwRecord.state = "READY"

C19_ClosesOnlyOnViolation ==
    [][ /\ (~wcAuth /\ wcLast' /= wcLast /\ wcLast'.frame = "garbage")
           => wcState' /= "open"
        /\ (wcState = "open" /\ wcState' = "closing")
           => \/ wcLast'.frame = "garbage" /\ ~wcAuth
              \/ wcLast'.frame \notin {"none", "garbage", "auth_ok"} /\ ~wcAuth
              \/ wcLast'.frame = "auth_bad"
              \/ wcLast'.frame = "auth_ok" /\ ~wcUrl.hasId
              \/ wcLast'.frame = "none" /\ wcUrl.prefix = "other" ]_vars

\* C20: on an authenticated connection a quota denial, a failed power
\* action, a failed attach, a failed stats fetch or an unsupported event
\* sends its message and leaves the socket as it was: no close.
C20_BusinessErrorsKeepOpen ==
    [][ ( /\ wcAuth
          /\ wcLast' /= wcLast
          /\ wcLast'.msgs \in { <<"storage limit exceeded">>, <<"Action failed">>,
                                <<"Failed to attach">>, <<"stats error">>,
                                <<"Unsupported event">> } )
        => /\ wcState' = wcState
           /\ wcClose' = wcClose
           /\ wcAuth' ]_vars

\* An authenticated, open connection has just been refused a start for its
\* quota.
C20_Witness ==
    /\ wcAuth /\ wcState = "open" /\ wcClose = 0
    /\ wcLast.msgs = <<"storage limit exceeded">>

\* C21: a WebSocket power event calls start for power:start, kill for
\* power:stop and restart for power:restart; start and restart wait for the
\* quota check first, and an event the check denies gets the refusal message
\* and no runtime call, no log stream attach and no log buffer reset.
C21_PowerEventMapping ==
    pwReq.via = "ws" =>
        /\ pwReq.pc = "inspect" =>
               /\ pwReq.action \in {"start", "restart"}
               /\ pwReq.call = "none" /\ ~pwReq.logs /\ ~pwReq.reset
               /\ pwReq.sent = "none"
        /\ pwReq.pc = "calling" =>
               /\ pwReq.action = "start" => pwReq.call = "start"
               /\ pwReq.action = "stop" => pwReq.call = "kill"
               /\ pwReq.action = "restart" => pwReq.call = "restart"
               /\ pwReq.sent = "working"
        /\ pwReq.pc = "denied" =>
               /\ pwReq.action \in {"start", "restart"}
               /\ pwReq.sent = "refusal"
               /\ pwReq.call = "none" /\ ~pwReq.logs /\ ~pwReq.reset

C21_Witness ==
    /\ pwReq.via = "ws" /\ pwReq.pc = "denied" /\ pwReq.action = "restart"
    /\ pwReq.sent = "refusal"

\* C22: when the container lookup of an authenticated connection returns,
\* an /exec/ path is in log-relay mode, a /stats/ path is in stats mode and
\* any other path is being closed, whether or not the container exists.
C22_ModeByPath ==
    [][("bind" \in wcPending /\ "bind" \notin wcPending') =>
          /\ wcUrl.prefix = "exec" => wcSession' = "exec"
          /\ wcUrl.prefix = "stats" => wcSession' = "stats"
          /\ wcUrl.prefix = "other" =>
                /\ wcSession' = "none"
                /\ wcState' /= "open"
                /\ (wcClose = 0 => wcClose' = 1002)]_vars

\* C23: once a stats connection has closed, no fetchStats invocation starts
\* for it any more, whenever the close happens, including during the first
\* fetch.
C23_NoFetchAfterClose ==
    [][~wsOpen =>
          \A k \in TickIds : ~(ticks[k].pc = "idle" /\ ticks'[k].pc = "stats")]_vars

\* C24: a closed log-relay connection has no live follow stream: every
\* stream it opened is destroyed, also when it closed while container.logs()
\* was pending, so nothing is appended or sent for it afterwards.
C24_CloseDestroysStreams ==
    \A s \in StreamIds :
        (logStreams[s].owner /= 0 /\ conns[logStreams[s].owner].st = "closed")
            => logStreams[s].st /= "live"

C26_AppendOnly ==
    [][/\ Len(containerLogs') >= Len(containerLogs)
       /\ SubSeq(containerLogs', 1, Len(containerLogs)) = containerLogs]_vars

\* C27: between requests, every container's runtime name is the id of the
\* volume directory mounted into it and the key of a record of states.json,
\* after any sequence of create, redeploy, reinstall, edit and delete.
C27_NameIsVolumeAndKey ==
    nmReq.pc = "idle" =>
        \A n \in NmCids :
            nmContainers[n] /= NoMount =>
                /\ nmContainers[n].name = nmContainers[n].bind
                /\ nmContainers[n].name \in nmStates

\* C28: every versioned request of one client instance carries the same
\* version prefix, also when several first calls are in flight together.
C28_OnePrefix ==
    \A j \in VnCalls, k \in VnCalls :
        (vnCalls[j].version /= Null /\ vnCalls[k].version /= Null)
            => vnCalls[j].version = vnCalls[k].version

\* C29: when the body has ended, the pull is rejected exactly when the last
\* well-formed line of the whole body carries an error, and lastStatus is
\* that line's frame, wherever the chunk boundaries fall.
C29_OutcomeIgnoresChunking ==
    plResult /= "pending" =>
        /\ lastStatus = ParseLines(Split(plBody, <<>>), Null)
        /\ plResult = "rejected" <=>
              /\ ParseLines(Split(plBody, <<>>), Null) /= Null
              /\ ParseLines(Split(plBody, <<>>), Null)[1].error

\* C30: with quota Q > 0 an upload is denied exactly when usage plus the
\* size of the upload is at least Q, and it is never denied when Q is 0; a
\* denied request leaves no file in the volume and none in tmp/.
C30_UploadDeniedAtQuota ==
    /\ (upReq.pc \in {"denied", "moving"} \/ upReq.code \in {200, 413}) =>
          ( (upReq.pc = "denied" \/ upReq.code = 413) <=>
              /\ upReq.limit > 0
              /\ upReq.usage + uploadSize(upFiles) >= upReq.limit * 1024 * 1024 )
    /\ upReq.code = 413 => (upMoved = {} /\ upTmp = {})

\* C31: the directory walk never enters a directory more than 500 levels
\* below the root: on a deeper tree it logs the warning and returns the sum
\* of the 500 levels above the cap.
C31_WalkCapped ==
    /\ szLevel <= MaxDepth
    /\ (szPc = "returned" /\ szTree > MaxDepth) =>
          (szWarned /\ totalSize = MaxDepth)

C34_OtherIdsUntouched ==
    [][\A o \in SjOps, y \in SjIds :
          (sjOps[o].pc = "write" /\ sjOps'[o].pc = "done" /\ sjOps[o].id /= y)
              => sjFile'[y] = sjFile[y]]_vars

\* C35: when an operation (create, redeploy, reinstall, delete) has
\* completed with a success response, every READY record's containerId
\* identifies an existing container that carries the record's id as its
\* name, so that a lookup of the record by containerId finds it.
C35_ReadyRecordFindsContainer ==
    [][(\E r \in Reqs : /\ reqs[r].pc /= "done"
                        /\ reqs'[r].pc = "done"
                        /\ reqs'[r].code \in {200, 202})
          => \A i \in Ids :
                states'[i].state = "READY" =>
                    /\ states'[i].containerId /= Null
                    /\ containers'[states'[i].containerId[1]] /= NoContainer
                    /\ containers'[states'[i].containerId[1]].name = i]_vars

\* C36: a write of the record by a request that supplies no quota (a
\* reinstall, or a redeploy whose body has no Disk) leaves the record's
\* diskLimit as it was.
C36_LimitKeptWithoutQuota ==
    [][\A r \in Reqs :
          (/\ reqs[r].pc \in {"I_write", "R_write"}
           /\ reqs'[r] /= reqs[r]
           /\ \/ reqs[r].kind = "reinstall"
              \/ reqs[r].kind = "redeploy" /\ reqs[r].disk = Null)
              => states'[reqs[r].id].diskLimit = states[reqs[r].id].diskLimit]_vars

\* C37: a connection owns at most one log follow stream (requested or
\* live), whatever power:* events it sends after its session has started.
C37_OneFollowStream ==
    \A c \in Conns :
        Cardinality({s \in StreamIds : /\ logStreams[s].owner = c
                                       /\ logStreams[s].st \in {"pending", "live"}}) <= 1

\* C38: each chunk the container writes is in the log buffer at most once,
\* however many viewers are attached.
C38_ChunkBufferedOnce ==
    \A i \in 1..Len(containerLogs), j \in 1..Len(containerLogs) :
        i /= j => containerLogs[i].n /= containerLogs[j].n

\* C39: downloadFile returns without throwing only if the file has been
\* completely downloaded from a 200 response.
C39_ReturnMeansDownloaded ==
    \A i \in Scripts : dlRes[i] = "returned" => dlFile[i] = "complete"

\* C40: the delete route removes a volume directory only when the
\* workload's container does not exist (any more): a runtime error other
\* than 404, whatever its message text, leaves the directories as they were
\* and is answered with an error.
C40_VolumeKeptWhileContainerExists ==
    [][\A n \in DiNames :
          (n \in diVolumes /\ n \notin diVolumes') => n \notin diContainer']_vars

=============================================================================
